---------------------------- MODULE Spec2Model ----------------------------
(***************************************************************************)
(* A model of the baseline JPEG decoder of friendlymatthew/jpeg.           *)
(*                                                                         *)
(* The decoder is a strictly forward pipeline of pure stages over one      *)
(* byte buffer.  Each stage is modelled by the loop the source runs, one   *)
(* action per loop iteration or per call, and each stage has its own       *)
(* specification whose Init draws the stage's input from a bounded family: *)
(*                                                                         *)
(*   SpecScan   Decoder::setup / JFIFReader::decoder and scan_markers      *)
(*   SpecHuff   HuffmanTree::from                                          *)
(*   SpecStuff  Parser::parse_image_data (byte-stuffing removal)           *)
(*   SpecZig    EntropyDecoder::zigzag                                     *)
(*   SpecDecode Decoder::decode, from setup to the colour conversion       *)
(*   SpecIdct   IDCT::perform_idct and the level shift of one component    *)
(*   SpecEntropy EntropyDecoder::decode_huffman                            *)
(*   SpecDequant Dequantizer::dequantize                                   *)
(*   SpecWorkers Decoder::setup, each worker of a scan window a step       *)
(*   SpecAgain  Decoder::setup called twice on one Decoder                 *)
(*                                                                         *)
(* Bytes are the integers 0..255.  Buffers are TLA+ sequences (1-based);   *)
(* At(buf, i) reads the source's 0-based index i.  A usize value that has  *)
(* wrapped is kept as its signed residue modulo 2^64 (usize -1 stands for  *)
(* 2^64 - 1), so that later wrapping additions agree with the source.      *)
(***************************************************************************)
EXTENDS Integers, Sequences, FiniteSets, TLC

VARIABLES
    \* ---- Decoder / JFIFReader (marker scanning) ----
    mmap,               \* the byte buffer
    cursor,             \* Decoder.cursor / JFIFReader.cursor
    all_markers,        \* scan_markers: the still-unresolved marker codes
    marker_marlen_map,  \* scan_markers: Marker -> Vec<Marlen>
    window_log,         \* history: <<cursor, all_markers>> of each scanned window
    entry,              \* which constructor runs: "setup" or "decoder"
    scan_pc,            \* position in the constructor
    scan_result,        \* "none" | "parser" | "err" | "panic"
    overflow_checks     \* build profile: TRUE = debug (checked arithmetic,
                        \* debug assertions), FALSE = release (wrapping)

scanVars == <<mmap, cursor, all_markers, marker_marlen_map, window_log,
              entry, scan_pc, scan_result, overflow_checks>>

VARIABLES
    \* ---- HuffmanTree::from ----
    hf_code_freqs,      \* the argument code_freqs: a sequence of <<code, freq>>
    hf_nodes,           \* the allocated HuffmanNodes, by allocation order;
                        \* left / right = 0 is None, else a 1-based node id
    hf_heap,            \* min_heap: a set of HeapItems [freq, node]
    hf_pc,              \* "idle" | "push" | "merge" | "root" | "done"
    hf_root,            \* the root NPtr of the returned tree (0 = None)
    hf_result           \* "none" | "tree" | "panic"

huffVars == <<hf_code_freqs, hf_nodes, hf_heap, hf_pc, hf_root, hf_result>>

VARIABLES
    \* ---- Parser::parse_image_data ----
    st_buffer,          \* Parser.buffer
    st_start,           \* the argument start_of_image_data_index
    st_current_index,   \* current_index
    st_temp_chunk,      \* temp_chunk: 64 lanes, never cleared between windows
    st_output,          \* result: the bytes emitted so far
    st_pc,              \* "idle" | "begin" | "loop" | "done"
    st_result           \* "none" | "ok" | "panic"

stuffVars == <<st_buffer, st_start, st_current_index, st_temp_chunk,
               st_output, st_pc, st_result>>

VARIABLES
    \* ---- EntropyDecoder::zigzag ----
    zz_data,            \* the argument data: a sequence of triples
    zz_cursor,          \* self.cursor
    zz_temp_chunk,      \* temp_chunk: 64 triples, never cleared between blocks
    zz_unzigzagged,     \* unzigzagged: the blocks pushed so far
    zz_pc               \* "idle" | "loop" | "done"

zigVars == <<zz_data, zz_cursor, zz_temp_chunk, zz_unzigzagged, zz_pc>>

VARIABLES
    \* ---- Decoder::decode ----
    dc_pc,                      \* the stage decode is at
    dc_result,                  \* "none" | "ok" | "err" | "panic"
    huffman_trees,              \* the trees parse_huffman_trees returned
    quantization_tables,        \* the tables parse_quant_table returned
    frame_header,               \* what parse_start_of_frame returned
    scan_header,                \* what parse_start_of_scan returned
    compressed_image_data,      \* what parse_image_data returned
    entropy_calls,              \* history: calls of EntropyDecoder::decode
    decompressed_image_data,    \* the triples EntropyDecoder::decode returned
    mcus,                       \* the blocks EntropyDecoder::zigzag returned
    image_data,                 \* per block, the three level-shifted components
    raw_image_data              \* the value decode returns

decodeVars == <<dc_pc, dc_result, huffman_trees, quantization_tables,
                frame_header, scan_header, compressed_image_data, entropy_calls,
                decompressed_image_data, mcus, image_data, raw_image_data>>

VARIABLES
    \* ---- IDCT::perform_idct and the level shift of one component ----
    id_precision,       \* IDCT.precision
    id_mcu,             \* the argument mcu: 64 coefficients
    id_output,          \* the 64 samples, in sixteenths
    id_pc               \* "idle" | "idct" | "shift" | "done"

idctVars == <<id_precision, id_mcu, id_output, id_pc>>

VARIABLES
    \* ---- EntropyDecoder::decode_huffman ----
    eh_data,            \* self.data: the bits, one per element
    eh_trees,           \* the trees of EntropyCoding::Huffman
    eh_selectors,       \* scan_header.scan_component_selectors
    eh_cursor,          \* self.cursor
    eh_node,            \* node_cursor: a tree node, or NoNode for None
    eh_key,             \* the key of the last huffman_map.get: the
                        \* (class, destination id) of the tree walked
    eh_component_ptr,   \* component_ptr
    eh_num_coeffs,      \* num_coeffs
    eh_component_batch, \* component_batch
    eh_image_data,      \* image_data: the triples pushed so far
    eh_walked,          \* history: iterations that followed a child pointer
    eh_emitted,         \* history: the symbols pushed on component_batch
    eh_pc,              \* "idle" | "begin" | "loop" | "done"
    eh_result           \* "none" | "ok" | "err" | "panic"

entropyVars == <<eh_data, eh_trees, eh_selectors, eh_cursor, eh_node, eh_key,
                 eh_component_ptr, eh_num_coeffs, eh_component_batch,
                 eh_image_data, eh_walked, eh_emitted, eh_pc, eh_result>>

VARIABLES
    \* ---- Dequantizer::dequantize ----
    dq_data,            \* self.data: per MCU the three arrays of 64 coefficients
    dq_order,           \* self.scan_component_order
    dq_map,             \* self.quantization_table_map: component id -> table
    dq_output,          \* dequantized_coefficients
    dq_pc,              \* "idle" | "loop" | "done"
    dq_result           \* "none" | "ok" | "err"

dequantVars == <<dq_data, dq_order, dq_map, dq_output, dq_pc, dq_result>>

VARIABLES
    \* ---- the per-marker workers of one window of scan_markers ----
    wk_pending,         \* the markers whose worker has not finished yet
    wk_visited,         \* visited_markers: the collected <<marker, marlens>>
    wk_log              \* history: the markers in order of worker completion

workerVars == <<wk_pending, wk_visited, wk_log>>

VARIABLES
    \* ---- repeated calls of Decoder::setup on one Decoder ----
    sa_calls,           \* the calls of setup started so far
    sa_first            \* history: result and marlen map of the first call

againVars == <<sa_calls, sa_first>>

vars == <<scanVars, huffVars, stuffVars, zigVars, decodeVars, idctVars,
          entropyVars, dequantVars, workerVars, againVars>>

\* What the actions of one stage leave alone: the other stages.
notScan == <<huffVars, stuffVars, zigVars, decodeVars, idctVars, entropyVars,
              dequantVars, workerVars,
             againVars>>
notHuff == <<scanVars, stuffVars, zigVars, decodeVars, idctVars, entropyVars,
              dequantVars, workerVars,
             againVars>>
notStuff == <<scanVars, huffVars, zigVars, decodeVars, idctVars, entropyVars,
               dequantVars, workerVars,
              againVars>>
notZig == <<scanVars, huffVars, stuffVars, decodeVars, idctVars, entropyVars,
             dequantVars, workerVars,
            againVars>>
notDecode == <<huffVars, stuffVars, zigVars, idctVars, entropyVars,
               dequantVars, workerVars,
               againVars>>
notIdct == <<scanVars, huffVars, stuffVars, zigVars, decodeVars, entropyVars,
              dequantVars, workerVars,
             againVars>>
notEntropy == <<scanVars, huffVars, stuffVars, zigVars, decodeVars, idctVars,
                dequantVars, workerVars,
                againVars>>
notDequant == <<scanVars, huffVars, stuffVars, zigVars, decodeVars, idctVars,
                entropyVars, workerVars,
                againVars>>
notWorkers == <<huffVars, stuffVars, zigVars, decodeVars, idctVars,
                entropyVars, dequantVars, againVars>>
notAgain == <<huffVars, stuffVars, zigVars, decodeVars, idctVars,
              entropyVars, dequantVars, workerVars>>

-----------------------------------------------------------------------------
(* Bytes, markers                                                          *)

Byte == 0..255

At(buf, i) == buf[i + 1]

Min(a, b) == IF a < b THEN a ELSE b

Zeros(n) == [i \in 1..n |-> 0]

RemoveAt(s, i) == SubSeq(s, 1, i - 1) \o SubSeq(s, i + 1, Len(s))

\* The elements of a finite set of integers in ascending order.
Ascending(S) ==
    [k \in 1..Cardinality(S) |->
        CHOOSE x \in S : Cardinality({y \in S : y < x}) = k - 1]

GLOBAL == 255
STUFF == 0
SOF0 == 192
DHT == 196
DAC == 204
RST0 == 208
RST7 == 215
SOI == 216
EOI == 217
SOS == 218
DQT == 219
EXP == 223
APP0 == 224
TEM == 1
MARKER_SIZE == 2
LANE_COUNT == 64

\* Marker::all(): every variant but GLOBAL and STUFF.  The scanner compares
\* `*low_marker as u8`, so a marker is its low byte: 0x01 (TEM), 0x02..0xBF
\* (RES2..RES191, declared 0xFF02..0xFFBF) and 0xC0..0xFE.
AllMarkers == 1..254

\* Marker::singleton
Singleton(m) == m \notin {DHT, DAC, DQT, EXP}

\* Marker::is_segment: TRUE for MarkerType::Segment
IsSegment(m) == ~(m \in RST0..RST7 \/ m \in {SOI, EOI, TEM})

-----------------------------------------------------------------------------
(* Each stage at rest, for the specifications of the other stages          *)

NONE == 0

ScanIdle ==
    /\ mmap = << >>
    /\ cursor = 0
    /\ all_markers = AllMarkers
    /\ marker_marlen_map = << >>
    /\ window_log = << >>
    /\ entry = "setup"
    /\ scan_pc = "idle"
    /\ scan_result = "none"
    /\ overflow_checks = FALSE

HuffIdle ==
    /\ hf_code_freqs = << >>
    /\ hf_nodes = << >>
    /\ hf_heap = {}
    /\ hf_pc = "idle"
    /\ hf_root = NONE
    /\ hf_result = "none"

StuffIdle ==
    /\ st_buffer = << >>
    /\ st_start = 0
    /\ st_current_index = 0
    /\ st_temp_chunk = Zeros(LANE_COUNT)
    /\ st_output = << >>
    /\ st_pc = "idle"
    /\ st_result = "none"

BLOCK_SIZE == 64

ZeroTriple == <<0, 0, 0>>

ZigIdle ==
    /\ zz_data = << >>
    /\ zz_cursor = 0
    /\ zz_temp_chunk = [k \in 1..BLOCK_SIZE |-> ZeroTriple]
    /\ zz_unzigzagged = << >>
    /\ zz_pc = "idle"

IdctIdle ==
    /\ id_precision = 0
    /\ id_mcu = << >>
    /\ id_output = << >>
    /\ id_pc = "idle"

EntropyIdle ==
    /\ eh_data = << >>
    /\ eh_trees = << >>
    /\ eh_selectors = << >>
    /\ eh_cursor = 0
    /\ eh_node = << >>
    /\ eh_key = << >>
    /\ eh_component_ptr = 0
    /\ eh_num_coeffs = 0
    /\ eh_component_batch = << >>
    /\ eh_image_data = << >>
    /\ eh_walked = 0
    /\ eh_emitted = << >>
    /\ eh_pc = "idle"
    /\ eh_result = "none"

AgainIdle ==
    /\ sa_calls = 0
    /\ sa_first = << >>

WorkersIdle ==
    /\ wk_pending = {}
    /\ wk_visited = << >>
    /\ wk_log = << >>

DequantIdle ==
    /\ dq_data = << >>
    /\ dq_order = << >>
    /\ dq_map = << >>
    /\ dq_output = << >>
    /\ dq_pc = "idle"
    /\ dq_result = "none"

DecodeIdle ==
    /\ dc_pc = "idle"
    /\ dc_result = "none"
    /\ huffman_trees = << >>
    /\ quantization_tables = << >>
    /\ frame_header = [result |-> "none"]
    /\ scan_header = [result |-> "none"]
    /\ compressed_image_data = << >>
    /\ entropy_calls = 0
    /\ decompressed_image_data = << >>
    /\ mcus = << >>
    /\ image_data = << >>
    /\ raw_image_data = << >>

-----------------------------------------------------------------------------
(* scan_markers: one 64-lane window                                        *)

\* temp_chunk after copy_from_slice: the window's bytes, zero padded.
Chunk(buf, cur) ==
    [k \in 1..LANE_COUNT |->
        IF cur + k - 1 < Len(buf) THEN At(buf, cur + k - 1) ELSE 0]

\* curr_chunk.rotate_elements_left::<1>(): lane i holds lane (i+1) mod 64.
\* A chunk is a sequence of LANE_COUNT bytes; At(chunk, i) is lane i.
RotateLeft(chunk) ==
    [k \in 1..LANE_COUNT |-> At(chunk, k % LANE_COUNT)]

\* high_marker_matches: the lanes holding 0xFF.
HighLanes(chunk) == {i \in 0..(LANE_COUNT - 1) : At(chunk, i) = GLOBAL}

\* The lanes where some still-unresolved marker matches
\* (high_marker_matches & low_marker_matches, over all workers).
MatchLanes(chunk, markers) ==
    {i \in HighLanes(chunk) : At(RotateLeft(chunk), i) \in markers}

\* The two index expressions self.mmap[segment_offset], [segment_offset + 1]
\* of a segment marker found at marker_offset p are in bounds.
LengthReadable(buf, p) == p + MARKER_SIZE + 1 < Len(buf)

\* u16::from_be_bytes([mmap[segment_offset], mmap[segment_offset + 1]])
DeclaredLength(buf, p) ==
    256 * At(buf, p + MARKER_SIZE) + At(buf, p + MARKER_SIZE + 1)

\* The worker of marker m panics at marker_offset p: an out-of-bounds index,
\* or `as usize - 2` overflowing with overflow checks on.
WorkerPanics(buf, m, p, checks) ==
    /\ IsSegment(m)
    /\ \/ ~LengthReadable(buf, p)
       \/ checks /\ DeclaredLength(buf, p) < 2

\* segment_marlen with the declared length kept whole.
SegmentMarlenWholeLength(buf, m, p) ==
    IF IsSegment(m)
    THEN <<p + MARKER_SIZE + 2, DeclaredLength(buf, p)>>
    ELSE <<p + MARKER_SIZE, 0>>

\* segment_marlen of marker m found at marker_offset p.
SegmentMarlen(buf, m, p) ==
    IF IsSegment(m)
    THEN <<p + MARKER_SIZE + 2, DeclaredLength(buf, p) - 2>>
    ELSE <<p + MARKER_SIZE, 0>>

\* The marlens of a worker that takes the last set lane first.
WorkerMarlensLastFirst(buf, cur, chunk, m) ==
    LET lanes == Ascending({i \in HighLanes(chunk) : At(RotateLeft(chunk), i) = m})
    IN  [k \in 1..Len(lanes) |->
            SegmentMarlen(buf, m, cur + lanes[Len(lanes) + 1 - k])]

\* The marlens one worker (marker m) pushes for a window, in lane order.
WorkerMarlens(buf, cur, chunk, m) ==
    LET lanes == Ascending({i \in HighLanes(chunk) : At(RotateLeft(chunk), i) = m})
    IN  [k \in 1..Len(lanes) |-> SegmentMarlen(buf, m, cur + lanes[k])]

\* The markers some worker of the window reports.
WindowMarkers(chunk, markers) ==
    {At(RotateLeft(chunk), i) : i \in MatchLanes(chunk, markers)}

WindowPanics(buf, cur, markers, checks) ==
    LET chunk == Chunk(buf, cur)
    IN  \E i \in MatchLanes(chunk, markers) :
            WorkerPanics(buf, At(RotateLeft(chunk), i), cur + i, checks)

\* marker_marlen_map after the merge loop of one window.
MergeWindow(map, buf, cur, markers) ==
    LET chunk == Chunk(buf, cur)
        found == WindowMarkers(chunk, markers)
    IN  [m \in (DOMAIN map) \cup found |->
            (IF m \in DOMAIN map THEN map[m] ELSE <<>>) \o
            (IF m \in found THEN WorkerMarlens(buf, cur, chunk, m) ELSE <<>>)]

\* all_markers after the merge loop: found singletons are removed.
RemoveVisited(markers, buf, cur) ==
    markers \ {m \in WindowMarkers(Chunk(buf, cur), markers) : Singleton(m)}

-----------------------------------------------------------------------------
(* HuffmanTree::from                                                       *)

SENTINEL == 255

\* HuffmanNode::new_node
NewNode(code, freq) ==
    [code |-> code, freq |-> freq, left |-> NONE, right |-> NONE]

\* The internal node the merge allocates for two popped items.
MergedNode(left_item, right_item) ==
    [code |-> SENTINEL, freq |-> left_item.freq + right_item.freq,
     left |-> left_item.node, right |-> right_item.node]

\* The items BinaryHeap::pop may return: HeapItem's Ord reverses the order
\* of freq, so the greatest item is one of least freq.  Ord looks at freq
\* alone and BinaryHeap leaves the order of equal items unspecified, so any
\* item of least freq may come out.
PopCandidates(heap) ==
    {it \in heap : \A other \in heap : it.freq <= other.freq}

\* The for loop: every (code, freq) becomes a leaf pushed on the heap.
HuffPush ==
    /\ hf_pc = "push"
    /\ IF Len(hf_nodes) < Len(hf_code_freqs)
       THEN LET cf == hf_code_freqs[Len(hf_nodes) + 1]
                id == Len(hf_nodes) + 1
            IN  /\ hf_nodes' = Append(hf_nodes, NewNode(cf[1], cf[2]))
                /\ hf_heap' = hf_heap \cup {[freq |-> cf[2], node |-> id]}
                /\ hf_pc' = hf_pc
       ELSE /\ hf_pc' = "merge"
            /\ UNCHANGED <<hf_nodes, hf_heap>>
    /\ UNCHANGED <<hf_code_freqs, hf_root, hf_result, notHuff>>

\* One iteration of `while min_heap.len() > 1`: pop left; break when one
\* item is left; else pop right, allocate the parent and push it.
HuffMerge ==
    /\ hf_pc = "merge"
    /\ IF Cardinality(hf_heap) > 1
       THEN \E left_item \in PopCandidates(hf_heap) :
              LET rest == hf_heap \ {left_item}
              IN  IF Cardinality(rest) = 1
                  THEN /\ hf_heap' = rest
                       /\ hf_pc' = "root"
                       /\ UNCHANGED hf_nodes
                  ELSE \E right_item \in PopCandidates(rest) :
                         LET id == Len(hf_nodes) + 1
                             parent == MergedNode(left_item, right_item)
                         IN  /\ hf_nodes' = Append(hf_nodes, parent)
                             /\ hf_heap' = (rest \ {right_item}) \cup
                                    {[freq |-> parent.freq, node |-> id]}
                             /\ hf_pc' = hf_pc
       ELSE /\ hf_pc' = "root"
            /\ UNCHANGED <<hf_nodes, hf_heap>>
    /\ UNCHANGED <<hf_code_freqs, hf_root, hf_result, notHuff>>

\* `let root_item = min_heap.pop(); ... root_item.unwrap()`
HuffRoot ==
    /\ hf_pc = "root"
    /\ IF hf_heap = {}
       THEN /\ hf_result' = "panic"
            /\ UNCHANGED <<hf_root, hf_heap>>
       ELSE \E root_item \in PopCandidates(hf_heap) :
              /\ hf_root' = root_item.node
              /\ hf_heap' = hf_heap \ {root_item}
              /\ hf_result' = "tree"
    /\ hf_pc' = "done"
    /\ UNCHANGED <<hf_code_freqs, hf_nodes, notHuff>>

\* The nodes of the tree hanging from node id n (NONE: no node).
RECURSIVE Subtree(_, _)
Subtree(nodes, n) ==
    IF n = NONE THEN {}
    ELSE {n} \cup Subtree(nodes, nodes[n].left) \cup Subtree(nodes, nodes[n].right)

IsLeafNode(nodes, n) == nodes[n].left = NONE /\ nodes[n].right = NONE

Leaves(nodes, root) == {n \in Subtree(nodes, root) : IsLeafNode(nodes, n)}

Internals(nodes, root) == {n \in Subtree(nodes, root) : ~IsLeafNode(nodes, n)}

MaxSyms == 4
MaxWeight == 3

HuffSymbols == {1, SENTINEL}

HuffInputs ==
    UNION {[1..n -> HuffSymbols \X (1..MaxWeight)] : n \in 0..MaxSyms}

-----------------------------------------------------------------------------
(* Parser::parse_image_data: byte-stuffing removal                         *)

\* temp_chunk[..len].copy_from_slice(&buffer[current_index..end]): the lanes
\* past len keep what the previous window left there.
CopyWindow(temp, buf, cur, len) ==
    [k \in 1..LANE_COUNT |-> IF k - 1 < len THEN At(buf, cur + k - 1) ELSE temp[k]]

\* zero_after_ff_mask: lane i holds 0xFF and the rotated lane holds 0x00.
ZeroAfterFF(chunk, i) ==
    At(chunk, i) = GLOBAL /\ At(RotateLeft(chunk), i) = STUFF

\* The inner `while i < len` loop from lane i on: push the lane, then skip
\* two lanes where the mask is set and one lane otherwise.
RECURSIVE ChunkResult(_, _, _)
ChunkResult(chunk, i, len) ==
    IF i >= len THEN << >>
    ELSE <<At(chunk, i)>> \o
         ChunkResult(chunk, IF ZeroAfterFF(chunk, i) THEN i + 2 ELSE i + 1, len)

\* `buffer.len() - Marker::SIZE - 1 - start` and Vec::with_capacity of it:
\* negative means an overflow panic (debug) or a wrapped capacity beyond
\* isize::MAX (release, capacity overflow panic).
StuffBegin ==
    /\ st_pc = "begin"
    /\ IF Len(st_buffer) - MARKER_SIZE - 1 - st_start < 0
       THEN st_result' = "panic" /\ st_pc' = "done"
       ELSE st_result' = st_result /\ st_pc' = "loop"
    /\ UNCHANGED <<st_buffer, st_start, st_current_index, st_temp_chunk,
                   st_output, notStuff>>

\* One iteration of `while current_index < buffer.len() - Marker::SIZE`.
StuffWindow ==
    /\ st_pc = "loop"
    /\ st_current_index < Len(st_buffer) - MARKER_SIZE
    /\ LET end == Min(st_current_index + LANE_COUNT, Len(st_buffer) - MARKER_SIZE)
           len == end - st_current_index
           chunk == CopyWindow(st_temp_chunk, st_buffer, st_current_index, len)
       IN  /\ st_temp_chunk' = chunk
           /\ st_output' = st_output \o ChunkResult(chunk, 0, len)
           /\ st_current_index' = st_current_index + LANE_COUNT
    /\ UNCHANGED <<st_buffer, st_start, st_pc, st_result, notStuff>>

\* Ok(result)
StuffReturn ==
    /\ st_pc = "loop"
    /\ st_current_index >= Len(st_buffer) - MARKER_SIZE
    /\ st_pc' = "done"
    /\ st_result' = "ok"
    /\ UNCHANGED <<st_buffer, st_start, st_current_index, st_temp_chunk,
                   st_output, notStuff>>

\* The entropy-coded bytes the call is given: from start to the EOI marker.
EntropyData(buf, start) == SubSeq(buf, start + 1, Len(buf) - MARKER_SIZE)

-----------------------------------------------------------------------------
(* EntropyDecoder::zigzag                                                  *)

\* EntropyDecoder::ZIGZAG_TABLE, entry idx at position idx + 1.
ZIGZAG_TABLE ==
    << 0,  1,  5,  6, 14, 15, 27, 28,
       2,  4,  7, 13, 16, 26, 29, 42,
       3,  8, 12, 17, 25, 30, 41, 43,
       9, 11, 18, 24, 31, 40, 44, 53,
      10, 19, 23, 32, 39, 45, 52, 54,
      20, 22, 33, 38, 46, 51, 55, 60,
      21, 34, 37, 47, 50, 56, 59, 61,
      35, 36, 48, 49, 57, 58, 62, 63 >>

\* `new_chunk[Self::ZIGZAG_TABLE[idx]] = block` for every idx of temp_chunk:
\* the block stored at index jdx is the one whose table entry is jdx.
Permute(temp) ==
    [k \in 1..BLOCK_SIZE |->
        LET jdx == k - 1
            idx == CHOOSE i \in 0..(BLOCK_SIZE - 1) : At(ZIGZAG_TABLE, i) = jdx
        IN  At(temp, idx)]

\* temp_chunk[..len].copy_from_slice(&data[cursor..end])
CopyBlock(temp, data, cur, len) ==
    [k \in 1..BLOCK_SIZE |-> IF k - 1 < len THEN At(data, cur + k - 1) ELSE temp[k]]

\* One iteration of `while self.cursor < data.len()`.
ZigBlock ==
    /\ zz_pc = "loop"
    /\ zz_cursor < Len(zz_data)
    /\ LET end == Min(zz_cursor + BLOCK_SIZE, Len(zz_data))
           len == end - zz_cursor
           temp == CopyBlock(zz_temp_chunk, zz_data, zz_cursor, len)
       IN  /\ zz_temp_chunk' = temp
           /\ zz_unzigzagged' = Append(zz_unzigzagged, Permute(temp))
           /\ zz_cursor' = zz_cursor + len
    /\ UNCHANGED <<zz_data, zz_pc, notZig>>

\* Ok(unzigzagged)
ZigReturn ==
    /\ zz_pc = "loop"
    /\ zz_cursor >= Len(zz_data)
    /\ zz_pc' = "done"
    /\ UNCHANGED <<zz_data, zz_cursor, zz_temp_chunk, zz_unzigzagged, notZig>>

-----------------------------------------------------------------------------
(* Decoder::setup and JFIFReader::decoder                                  *)

MaxCalls == 2

\* Decoder::check_start_of_image
CheckStartOfImage ==
    /\ scan_pc = "check"
    /\ IF cursor + 1 >= Len(mmap)
       THEN scan_result' = "panic" /\ scan_pc' = "done"
       ELSE IF At(mmap, cursor) = GLOBAL /\ At(mmap, cursor + 1) = SOI
       THEN scan_result' = scan_result /\ scan_pc' = "scan"
       ELSE scan_result' = "err" /\ scan_pc' = "done"
    /\ UNCHANGED <<mmap, cursor, all_markers, marker_marlen_map, window_log,
                   entry, overflow_checks, notScan>>

\* One iteration of the while loop of scan_markers.
ScanWindow ==
    /\ scan_pc = "scan"
    /\ cursor < Len(mmap)
    /\ window_log' = Append(window_log, <<cursor, all_markers>>)
    /\ IF HighLanes(Chunk(mmap, cursor)) = {}
       THEN /\ cursor' = cursor + LANE_COUNT
            /\ UNCHANGED <<all_markers, marker_marlen_map, scan_pc, scan_result>>
       ELSE IF WindowPanics(mmap, cursor, all_markers, overflow_checks)
       THEN /\ scan_result' = "panic"
            /\ scan_pc' = "done"
            /\ UNCHANGED <<cursor, all_markers, marker_marlen_map>>
       ELSE /\ marker_marlen_map' =
                    MergeWindow(marker_marlen_map, mmap, cursor, all_markers)
            /\ all_markers' = RemoveVisited(all_markers, mmap, cursor)
            /\ cursor' = cursor + LANE_COUNT
            /\ UNCHANGED <<scan_pc, scan_result>>
    /\ UNCHANGED <<mmap, entry, overflow_checks, notScan>>

\* scan_markers returns Ok(marker_marlen_map).
ScanReturn ==
    /\ scan_pc = "scan"
    /\ cursor >= Len(mmap)
    /\ scan_pc' = "built"
    /\ UNCHANGED <<mmap, cursor, all_markers, marker_marlen_map, window_log,
                   entry, scan_result, overflow_checks, notScan>>

\* Decoder::setup after scan_markers: Parser::new, no further check.
SetupReturn ==
    /\ scan_pc = "built"
    /\ entry \in {"setup", "decode"}
    /\ scan_result' = "parser"
    /\ scan_pc' = "done"
    /\ UNCHANGED <<mmap, cursor, all_markers, marker_marlen_map, window_log,
                   entry, overflow_checks, notScan>>

\* The checks of JFIFReader::decoder on the scan result.
DecoderAccepts(map, buf) ==
    /\ SOI \in DOMAIN map
    /\ EOI \in DOMAIN map
    /\ Len(map[SOI]) = 1
    /\ Len(map[EOI]) = 1
    /\ map[SOI][1][1] = MARKER_SIZE
    /\ map[EOI][1][1] = Len(buf)

\* JFIFReader::decoder after scan_markers.
DecoderReturn ==
    /\ scan_pc = "built"
    /\ entry = "decoder"
    /\ scan_result' = IF DecoderAccepts(marker_marlen_map, mmap)
                      THEN "parser" ELSE "err"
    /\ scan_pc' = "done"
    /\ UNCHANGED <<mmap, cursor, all_markers, marker_marlen_map, window_log,
                   entry, overflow_checks, notScan>>

\* setup is called again on the Decoder after a call that returned: the
\* locals of scan_markers are new, self.cursor is the field the earlier
\* call left behind.
SetupAgain ==
    /\ scan_pc = "done"
    /\ scan_result \in {"parser", "err"}
    /\ sa_calls < MaxCalls
    /\ sa_calls' = sa_calls + 1
    /\ sa_first' = IF sa_calls = 1
                   THEN [result |-> scan_result, map |-> marker_marlen_map]
                   ELSE sa_first
    /\ all_markers' = AllMarkers
    /\ marker_marlen_map' = << >>
    /\ window_log' = << >>
    /\ scan_pc' = "check"
    /\ scan_result' = "none"
    /\ UNCHANGED <<mmap, cursor, entry, overflow_checks, notAgain>>

-----------------------------------------------------------------------------
(* scan_markers with the workers of a window as steps of their own: the    *)
(* closure of par_iter().filter_map() runs once per unresolved marker, in  *)
(* any order; a worker whose marker matches no lane returns None and is    *)
(* not a step.  The merge loop takes the collected results in the order of *)
(* the Vec, which follows the iteration order of the HashSet all_markers   *)
(* and is unspecified.                                                     *)

\* The loop head up to par_iter: a window without 0xFF is skipped, else a
\* worker is started for every marker that matches a lane.
WindowBegin ==
    /\ scan_pc = "scan"
    /\ cursor < Len(mmap)
    /\ window_log' = Append(window_log, <<cursor, all_markers>>)
    /\ IF HighLanes(Chunk(mmap, cursor)) = {}
       THEN /\ cursor' = cursor + LANE_COUNT
            /\ UNCHANGED <<scan_pc, wk_pending>>
       ELSE /\ wk_pending' = WindowMarkers(Chunk(mmap, cursor), all_markers)
            /\ scan_pc' = "workers"
            /\ UNCHANGED cursor
    /\ UNCHANGED <<mmap, all_markers, marker_marlen_map, entry, scan_result,
                   overflow_checks, wk_visited, wk_log, notWorkers>>

\* The worker of one marker runs to its end: it panics on a lane whose
\* length bytes it cannot read, else returns its local vectors.
WorkerFinish ==
    /\ scan_pc = "workers"
    /\ \E m \in wk_pending :
          LET chunk == Chunk(mmap, cursor)
              lanes == MatchLanes(chunk, {m})
          IN  IF \E i \in lanes : WorkerPanics(mmap, m, cursor + i, overflow_checks)
              THEN /\ scan_result' = "panic"
                   /\ scan_pc' = "done"
                   /\ UNCHANGED <<wk_pending, wk_visited, wk_log>>
              ELSE /\ wk_visited' = Append(wk_visited,
                          <<m, WorkerMarlens(mmap, cursor, chunk, m)>>)
                   /\ wk_pending' = wk_pending \ {m}
                   /\ wk_log' = Append(wk_log, m)
                   /\ UNCHANGED <<scan_pc, scan_result>>
    /\ UNCHANGED <<mmap, cursor, all_markers, marker_marlen_map, window_log,
                   entry, overflow_checks, notWorkers>>

\* One iteration of `for (local_visited_markers, local_marker_marlen_map)
\* in visited_markers`, on any of the results not merged yet.
MergeNext ==
    /\ scan_pc = "workers"
    /\ wk_pending = {}
    /\ \E i \in 1..Len(wk_visited) :
          LET m == wk_visited[i][1]
          IN  /\ all_markers' = IF Singleton(m) THEN all_markers \ {m}
                                                ELSE all_markers
              /\ marker_marlen_map' =
                    [k \in (DOMAIN marker_marlen_map) \cup {m} |->
                        IF k = m
                        THEN (IF m \in DOMAIN marker_marlen_map
                              THEN marker_marlen_map[m] ELSE << >>) \o wk_visited[i][2]
                        ELSE marker_marlen_map[k]]
              /\ wk_visited' = RemoveAt(wk_visited, i)
    /\ UNCHANGED <<mmap, cursor, window_log, entry, scan_pc, scan_result,
                   overflow_checks, wk_pending, wk_log, notWorkers>>

\* The end of the loop body: temp_chunk is cleared, the cursor moves on.
WindowEnd ==
    /\ scan_pc = "workers"
    /\ wk_pending = {}
    /\ wk_visited = << >>
    /\ cursor' = cursor + LANE_COUNT
    /\ scan_pc' = "scan"
    /\ UNCHANGED <<mmap, all_markers, marker_marlen_map, window_log, entry,
                   scan_result, overflow_checks, workerVars, notWorkers>>

-----------------------------------------------------------------------------
(* Parser: the segment parsers Decoder::decode calls, as functions of the  *)
(* buffer and the marlen map.  Each returns a record whose result is "ok", *)
(* "err" (an Err value) or "panic".                                        *)

DC == 0
AC == 1
EightBit == 0
SixteenBit == 1
Grayscale == 0
Color == 1

Failed(kind) == [result |-> kind]

\* An index expression buffer[i] is in bounds.
InBuffer(buf, i) == i < Len(buf)

\* flat_lengths: idx + 1 repeated sym_table[idx] times, for idx = 0..15
\* (hist is the 16-byte histogram, from is idx + 1).
RECURSIVE FlatLengths(_, _)
FlatLengths(hist, from) ==
    IF from > Len(hist) THEN << >>
    ELSE [k \in 1..hist[from] |-> from] \o FlatLengths(hist, from + 1)

\* code_freq of the DHT segment with marlen (offset, length): the symbol
\* bytes zipped with flat_lengths; zip stops at the shorter of the two.
CodeFreq(buf, offset, length) ==
    LET sym_table == SubSeq(buf, offset + 2, offset + 17)
        flat_lengths == FlatLengths(sym_table, 1)
        codes == SubSeq(buf, offset + 18, offset + length)
    IN  [k \in 1..Min(Len(codes), Len(flat_lengths)) |->
            <<codes[k], flat_lengths[k]>>]

\* parse_huffman_information: Simd::<u8, 4>::from_slice of the first payload
\* byte of every DHT segment panics on an out-of-bounds offset and on fewer
\* than 4 bytes.
HuffmanInformationPanics(buf, marlens) ==
    \/ \E k \in 1..Len(marlens) : ~InBuffer(buf, marlens[k][1])
    \/ Len(marlens) < 4

\* ht_types[idx] = (info & 0b10000) >> 4, ht_numbers[idx] = info & 0b1111.
HtType(info) == (info \div 16) % 2
HtNumberHighNibble(info) == info \div 16
HtNumber(info) == info % 16

\* The body of the for loop of parse_huffman_trees from segment k (1-based)
\* on; trees holds (class, destination_id, code_freq) of the segments done.
RECURSIVE HuffmanSegments(_, _, _, _)
HuffmanSegments(buf, marlens, k, trees) ==
    IF k > Len(marlens) THEN [result |-> "ok", trees |-> trees]
    ELSE LET offset == marlens[k][1]
             length == marlens[k][2]
         IN  IF Len(buf) < offset + 1 + 16 THEN Failed("err")
             \* code_len = (offset + length) - current_offset underflows, or
             \* wraps and gives a slice whose end is below its start
             ELSE IF length < 17 THEN Failed("panic")
             \* the slice of the symbol bytes ends past the buffer
             ELSE IF offset + length > Len(buf) THEN Failed("panic")
             \* ht_types[idx] on a [u8; 4]
             ELSE IF k > 4 THEN Failed("panic")
             \* HuffmanTree::from unwraps the root of an empty heap
             ELSE IF CodeFreq(buf, offset, length) = << >> THEN Failed("panic")
             ELSE HuffmanSegments(buf, marlens, k + 1,
                    Append(trees,
                        [class |-> HtType(At(buf, offset)),
                         destination_id |-> HtNumber(At(buf, offset)),
                         code_freq |-> CodeFreq(buf, offset, length)]))

\* Parser::parse_huffman_trees; debug is the build profile.
ParseHuffmanTrees(buf, map, debug) ==
    IF DHT \notin DOMAIN map THEN Failed("err")
    ELSE IF debug /\ Len(map[DHT]) # 4 THEN Failed("panic")
    ELSE IF HuffmanInformationPanics(buf, map[DHT]) THEN Failed("panic")
    ELSE HuffmanSegments(buf, map[DHT], 1, << >>)

\* A tree node is <<code, freq, left, right>>; NoNode is the None pointer.
NoNode == << >>

LeafOf(code, freq) == <<code, freq, NoNode, NoNode>>

MergeOf(left, right) == <<SENTINEL, left[2] + right[2], left, right>>

\* The positions BinaryHeap::pop may take from: the items of least freq.
PopPositions(heap) ==
    {i \in 1..Len(heap) : \A j \in 1..Len(heap) : heap[i][2] <= heap[j][2]}

\* The roots HuffmanTree::from may return for a heap of nodes: the while
\* loop pops left, breaks when one item is left, else pops right and
\* pushes the parent; the root is the last pop.  Empty heap: no root.
RECURSIVE HeapRoots(_)
HeapRoots(heap) ==
    IF Len(heap) = 0 THEN {}
    ELSE IF Len(heap) = 1 THEN {heap[1]}
    ELSE UNION {
        LET rest == RemoveAt(heap, i)
        IN  IF Len(rest) = 1 THEN {rest[1]}
            ELSE UNION {
                HeapRoots(Append(RemoveAt(rest, j), MergeOf(heap[i], rest[j])))
                    : j \in PopPositions(rest)}
        : i \in PopPositions(heap)}

HuffmanRoots(code_freq) ==
    HeapRoots([k \in 1..Len(code_freq) |-> LeafOf(code_freq[k][1], code_freq[k][2])])

\* The tree lists parse_huffman_trees may return for the parsed segments.
RECURSIVE TreeLists(_)
TreeLists(parsed) ==
    IF parsed = << >> THEN {<< >>}
    ELSE {<<[class |-> Head(parsed).class,
             destination_id |-> Head(parsed).destination_id,
             root |-> root]>> \o rest :
            root \in HuffmanRoots(Head(parsed).code_freq),
            rest \in TreeLists(Tail(parsed))}

\* parse_quant_table_information: qt_precisions = info & 0b11110000 and
\* qt_ids = (info & 0b1111) >> 4.
QtPrecision(info) == (info \div 16) * 16
QtId(info) == (info % 16) \div 16

QUANTIZATION_TABLE_BYTES == 64

\* Parser::parse_quant_table (with parse_quant_table_information).
ParseQuantTable(buf, map, debug) ==
    IF DQT \notin DOMAIN map THEN Failed("err")
    ELSE LET marlens == map[DQT]
             start(k) == marlens[k][1] + MARKER_SIZE
         IN  IF debug /\ Len(marlens) # 2 THEN Failed("panic")
             ELSE IF \E k \in 1..Len(marlens) : ~InBuffer(buf, marlens[k][1])
                  THEN Failed("panic")
             \* Simd::<u8, 2>::from_slice, then qt_ids[idx] on a [u8; 2]
             ELSE IF Len(marlens) # 2 THEN Failed("panic")
             ELSE IF \E k \in 1..2 :
                        \/ debug /\ ~(Len(buf) > start(k) + QUANTIZATION_TABLE_BYTES)
                        \/ start(k) + QUANTIZATION_TABLE_BYTES > Len(buf)
                        \* SamplePrecision::decode: unreachable!()
                        \/ QtPrecision(At(buf, marlens[k][1])) \notin {0, 1}
                  THEN Failed("panic")
             ELSE [result |-> "ok",
                   tables |-> [k \in 1..2 |->
                      [table_id |-> QtId(At(buf, marlens[k][1])),
                       precision |-> QtPrecision(At(buf, marlens[k][1])),
                       elements |-> SubSeq(buf, start(k) + 1,
                                           start(k) + QUANTIZATION_TABLE_BYTES)]]]

\* ComponentType::from: 1 is grayscale, 2 and 3 are colour; 4 is todo!()
\* and anything else unreachable!().
KnownComponentCount(b) == b \in {1, 2, 3}
ComponentTypeFrom(b) == IF b = 1 THEN Grayscale ELSE Color

\* SamplePrecision::parse: 8 or 16, anything else unreachable!().
KnownSampleBits(b) == b \in {8, 16}
SamplePrecisionParse(b) == IF b = 8 THEN EightBit ELSE SixteenBit

\* A dimension with its bytes taken low byte first.
ImageDimensionLowFirst(buf, i) == At(buf, i) + 256 * At(buf, i + 1)

\* ((image_dim[k] as u16) << 8) | (image_dim[k + 1] as u16), image_dim[k]
\* being the buffer byte at i.
ImageDimension(buf, i) == 256 * At(buf, i) + At(buf, i + 1)

\* Parser::parse_start_of_frame.  A grayscale frame reads one component at
\* offset + 6 .. offset + 8, a colour frame three at offset + 6 .. offset + 14.
ParseStartOfFrame(buf, map, debug) ==
    IF SOF0 \notin DOMAIN map THEN Failed("err")
    ELSE LET offset == map[SOF0][1][1]
             count == IF InBuffer(buf, offset + 5) THEN At(buf, offset + 5) ELSE 0
             n == IF ComponentTypeFrom(count) = Grayscale THEN 1 ELSE 3
         IN  IF debug /\ Len(map[SOF0]) # 1 THEN Failed("panic")
             ELSE IF ~InBuffer(buf, offset + 5) THEN Failed("panic")
             ELSE IF ~KnownSampleBits(At(buf, offset)) THEN Failed("panic")
             ELSE IF ~KnownComponentCount(count) THEN Failed("panic")
             ELSE IF ~InBuffer(buf, offset + 5 + 3 * n) THEN Failed("panic")
             ELSE [result |-> "ok",
                   header |->
                     [precision |-> SamplePrecisionParse(At(buf, offset)),
                      image_height |-> ImageDimension(buf, offset + 1),
                      image_width |-> ImageDimension(buf, offset + 3),
                      component_type |-> ComponentTypeFrom(count),
                      components |-> [i \in 1..n |->
                         [component_id |-> At(buf, offset + 3 + 3 * i),
                          horizontal_factor |-> At(buf, offset + 4 + 3 * i) \div 16,
                          vertical_factor |-> At(buf, offset + 4 + 3 * i) % 16,
                          qt_table_id |-> At(buf, offset + 5 + 3 * i)]]]]

\* Parser::parse_start_of_scan.  Three selectors are read whatever the
\* component count; the trailing bytes are read from
\* offset + 1 + 2 * (component_type as usize), with Grayscale = 0, Color = 1.
ParseStartOfScan(buf, map, debug) ==
    IF SOS \notin DOMAIN map THEN Failed("err")
    ELSE LET offset == map[SOS][1][1]
             count == IF InBuffer(buf, offset) THEN At(buf, offset) ELSE 0
             type == ComponentTypeFrom(count)
             \* current_offset after `current_offset += 2 * (component_type as usize)`
             spectral == offset + 1 + 2 * type
         IN  IF debug /\ Len(map[SOS]) # 1 THEN Failed("panic")
             ELSE IF ~InBuffer(buf, offset) THEN Failed("panic")
             ELSE IF ~KnownComponentCount(count) THEN Failed("panic")
             \* debug_assert_eq!(component_type, ComponentType::Color)
             ELSE IF debug /\ type # Color THEN Failed("panic")
             ELSE IF ~InBuffer(buf, offset + 6) THEN Failed("panic")
             ELSE [result |-> "ok",
                   header |->
                     [component_type |-> type,
                      scan_component_selectors |-> [i \in 1..3 |->
                         [component_id |-> At(buf, offset + 2 * i - 1),
                          dc_destination_id |-> At(buf, offset + 2 * i) \div 16,
                          ac_destination_id |-> At(buf, offset + 2 * i) % 16]],
                      start_of_spectral |-> At(buf, spectral),
                      end_of_spectral |-> At(buf, spectral + 1),
                      successive_approx_bit_position_high |->
                          At(buf, spectral + 2) \div 16,
                      point_transform |-> At(buf, spectral + 2) % 16],
                   start |-> spectral + 3]

\* The windows of parse_image_data from current_index on.
RECURSIVE ImageWindows(_, _, _)
ImageWindows(buf, current_index, temp_chunk) ==
    IF current_index >= Len(buf) - MARKER_SIZE THEN << >>
    ELSE LET end == Min(current_index + LANE_COUNT, Len(buf) - MARKER_SIZE)
             len == end - current_index
             chunk == CopyWindow(temp_chunk, buf, current_index, len)
         IN  ChunkResult(chunk, 0, len) \o
             ImageWindows(buf, current_index + LANE_COUNT, chunk)

\* Parser::parse_image_data.
ParseImageData(buf, start) ==
    IF Len(buf) - MARKER_SIZE - 1 - start < 0 THEN Failed("panic")
    ELSE [result |-> "ok", data |-> ImageWindows(buf, start, Zeros(LANE_COUNT))]

-----------------------------------------------------------------------------
(* Decoder::decode after the parsers                                       *)

\* (ac_count, dc_count) of the fold over huffman_trees.
TreeCount(trees, class) == Cardinality({k \in 1..Len(trees) : trees[k].class = class})

\* CodingProcess::BaselineDCT.schema().entropy_table_count
ExpectedTables == <<2, 2>>

\* The three checks under `// validation....`, in order.
ValidationPasses(frame, scan, trees, tables) ==
    /\ frame.component_type = scan.component_type
    /\ TreeCount(trees, AC) = ExpectedTables[1]
    /\ TreeCount(trees, DC) = ExpectedTables[2]
    /\ \A k \in 1..Len(tables) : tables[k].precision = EightBit

\* BitReader::slice_to_bits: every byte most significant bit first.
SliceToBits(data) ==
    [k \in 1..(8 * Len(data)) |->
        (data[((k - 1) \div 8) + 1] \div (2 ^ (7 - ((k - 1) % 8)))) % 2]

\* EntropyCoding::huffman_map: (class, destination_id) -> root, a later
\* tree replacing an earlier one of the same key.
HuffmanMap(trees) ==
    [key \in {<<trees[k].class, trees[k].destination_id>> : k \in 1..Len(trees)} |->
        LET last == CHOOSE k \in 1..Len(trees) :
                        /\ <<trees[k].class, trees[k].destination_id>> = key
                        /\ \A j \in (k + 1)..Len(trees) :
                              <<trees[j].class, trees[j].destination_id>> # key
        IN  trees[last].root]

\* A selection that takes the DC tree whatever the count.
NextKeyAlwaysDc(coeffs, ids, ptr) == <<DC, ids[ptr + 1][1]>>

\* (next_class, next_destination_id): the DC tree of the component when
\* num_coeffs % 64 == 0, its AC tree otherwise.
NextKey(coeffs, ids, ptr) ==
    IF coeffs % 64 = 0 THEN <<DC, ids[ptr + 1][1]>> ELSE <<AC, ids[ptr + 1][2]>>

\* One iteration of the while loop of decode_huffman on one bit; s holds
\* node_cursor, component_ptr, num_coeffs, component_batch, image_data and
\* (next_class, next_destination_id), the key node_cursor was last got by.
HuffmanStep(s, bit, map, ids) ==
    IF s.node = NoNode THEN s
    ELSE IF s.node[1] # SENTINEL
    THEN LET batch == Append(s.batch, s.node[1])
             full == s.component_ptr + 1 = Len(ids)
             ptr == IF full THEN 0 ELSE s.component_ptr + 1
             coeffs == IF full THEN s.num_coeffs + 1 ELSE s.num_coeffs
             key == NextKey(coeffs, ids, ptr)
         IN  IF key \notin DOMAIN map THEN [s EXCEPT !.failed = TRUE]
             ELSE [s EXCEPT !.node = map[key],
                            !.key = key,
                            !.component_ptr = ptr,
                            !.num_coeffs = coeffs,
                            !.batch = IF full THEN << >> ELSE batch,
                            !.image_data = IF full THEN Append(@, batch) ELSE @]
    ELSE [s EXCEPT !.node = IF bit = 0 THEN s.node[3] ELSE s.node[4]]

\* The while loop of decode_huffman over the bits at positions lo..hi, the
\* range split in halves; the loop ends at the first Err.
RECURSIVE HuffmanLoop(_, _, _, _, _, _)
HuffmanLoop(s, bits, lo, hi, map, ids) ==
    IF lo > hi \/ s.failed THEN s
    ELSE IF lo = hi THEN HuffmanStep(s, bits[lo], map, ids)
    ELSE LET mid == (lo + hi) \div 2
         IN  HuffmanLoop(HuffmanLoop(s, bits, lo, mid, map, ids),
                         bits, mid + 1, hi, map, ids)

\* EntropyDecoder::decode (decode_huffman) on the bits.
DecodeHuffman(bits, trees, selectors) ==
    LET map == HuffmanMap(trees)
        ids == [i \in 1..Len(selectors) |->
                   <<selectors[i].dc_destination_id, selectors[i].ac_destination_id>>]
        first == <<DC, ids[1][1]>>
    IN  IF first \notin DOMAIN map THEN Failed("err")
        ELSE LET s == HuffmanLoop([node |-> map[first], key |-> first,
                                   component_ptr |-> 0,
                                   num_coeffs |-> 0, batch |-> << >>,
                                   image_data |-> << >>, failed |-> FALSE],
                                  bits, 1, Len(bits), map, ids)
             IN  IF s.failed THEN Failed("err")
                 ELSE [result |-> "ok", data |-> s.image_data]

\* EntropyDecoder::zigzag from self.cursor on.
RECURSIVE ZigzagBlocks(_, _, _)
ZigzagBlocks(data, cur, temp_chunk) ==
    IF cur >= Len(data) THEN << >>
    ELSE LET end == Min(cur + BLOCK_SIZE, Len(data))
             temp == CopyBlock(temp_chunk, data, cur, end - cur)
         IN  <<Permute(temp)>> \o ZigzagBlocks(data, end, temp)

\* quantization_table_map: component_id -> the first table whose table_id is
\* the component's qt_table_id; a component without one is an Err.
TableOf(tables, id) ==
    tables[CHOOSE k \in 1..Len(tables) :
              /\ tables[k].table_id = id
              /\ \A j \in 1..(k - 1) : tables[j].table_id # id]

AllTablesFound(frame, tables) ==
    \A i \in 1..Len(frame.components) :
        \E k \in 1..Len(tables) : tables[k].table_id = frame.components[i].qt_table_id

QuantizationTableMap(frame, tables) ==
    [id \in {frame.components[i].component_id : i \in 1..Len(frame.components)} |->
        LET last == CHOOSE i \in 1..Len(frame.components) :
                        /\ frame.components[i].component_id = id
                        /\ \A j \in (i + 1)..Len(frame.components) :
                              frame.components[j].component_id # id
        IN  TableOf(tables, frame.components[last].qt_table_id)]

\* The map over mcus before the dequantizer: a block of 64 triples becomes
\* three arrays (res1, res2, res3) of 64 coefficients.
Regroup(mcu) == [c \in 1..3 |-> [k \in 1..BLOCK_SIZE |-> mcu[k][c]]]

\* Dequantizer::dequantize on one MCU (c1, c2, c3): for each component the
\* lane-wise product Simd<u8, 64> * Simd<u8, 64>, which wraps at 8 bits.
DequantizeMcu(mcu, order, qmap) ==
    [c \in 1..3 |->
        [k \in 1..BLOCK_SIZE |-> (mcu[c][k] * qmap[order[c]].elements[k]) % 256]]

\* IDCT::perform_idct: the sums over u and v run over
\* 0..self.precision as usize, which is empty for EightBit (0) and the
\* single pair (0, 0) for SixteenBit (1); samples are kept in sixteenths.
PerformIdct(precision, component) ==
    [k \in 1..BLOCK_SIZE |-> IF precision = EightBit THEN 0 ELSE component[1]]

\* A level shift that subtracts 128.0.
LevelShiftDown(component) == [k \in 1..BLOCK_SIZE |-> component[k] - 16 * 128]

\* idct + level_shift (128.0), in sixteenths.
LevelShift(component) == [k \in 1..BLOCK_SIZE |-> component[k] + 16 * 128]

\* The RGB triples of one MCU, in sixteen-millionths.
BlockRgb(mcu) ==
    [k \in 1..BLOCK_SIZE |->
        LET y == mcu[1][k]
            cb == mcu[2][k] - 16 * 128
            cr == mcu[3][k] - 16 * 128
        IN  <<1000000 * y + 1402000 * cr,
              1000000 * y - 344136 * cb - 714136 * cr,
              1000000 * y + 1772000 * cb>>]

\* ColorSpace::convert_ycbcr_to_rgb: every MCU assigns rgbs anew.
RECURSIVE ConvertYcbcrToRgb(_, _)
ConvertYcbcrToRgb(blocks, rgbs) ==
    IF blocks = << >> THEN rgbs
    ELSE ConvertYcbcrToRgb(Tail(blocks), BlockRgb(Head(blocks)))

\* The Err or panic of a stage ends decode.
DecodeFails(kind) ==
    /\ dc_result' = kind
    /\ dc_pc' = "done"

\* `let parser = self.setup()?`: the Err (or panic) of setup is decode's.
DecodeSetupFailed ==
    /\ entry = "decode"
    /\ dc_pc = "setup"
    /\ scan_pc = "done"
    /\ scan_result \in {"err", "panic"}
    /\ DecodeFails(scan_result)
    /\ UNCHANGED <<huffman_trees, quantization_tables, frame_header, scan_header,
                   compressed_image_data, entropy_calls, decompressed_image_data,
                   mcus, image_data, raw_image_data, scanVars, notDecode>>

\* parser.parse_huffman_trees()?
DecodeHuffmanTrees ==
    /\ entry = "decode"
    /\ dc_pc = "setup"
    /\ scan_result = "parser"
    /\ LET parsed == ParseHuffmanTrees(mmap, marker_marlen_map, overflow_checks)
       IN  IF parsed.result = "ok"
           THEN /\ huffman_trees' \in TreeLists(parsed.trees)
                /\ dc_pc' = "quant"
                /\ UNCHANGED dc_result
           ELSE /\ DecodeFails(parsed.result)
                /\ UNCHANGED huffman_trees
    /\ UNCHANGED <<quantization_tables, frame_header, scan_header,
                   compressed_image_data, entropy_calls, decompressed_image_data,
                   mcus, image_data, raw_image_data, scanVars, notDecode>>

\* parser.parse_quant_table()?
DecodeQuantTable ==
    /\ dc_pc = "quant"
    /\ LET parsed == ParseQuantTable(mmap, marker_marlen_map, overflow_checks)
       IN  IF parsed.result = "ok"
           THEN /\ quantization_tables' = parsed.tables
                /\ dc_pc' = "frame"
                /\ UNCHANGED dc_result
           ELSE /\ DecodeFails(parsed.result)
                /\ UNCHANGED quantization_tables
    /\ UNCHANGED <<huffman_trees, frame_header, scan_header,
                   compressed_image_data, entropy_calls, decompressed_image_data,
                   mcus, image_data, raw_image_data, scanVars, notDecode>>

\* parser.parse_start_of_frame()?
DecodeStartOfFrame ==
    /\ dc_pc = "frame"
    /\ frame_header' = ParseStartOfFrame(mmap, marker_marlen_map, overflow_checks)
    /\ IF frame_header'.result = "ok"
       THEN dc_pc' = "scan" /\ UNCHANGED dc_result
       ELSE DecodeFails(frame_header'.result)
    /\ UNCHANGED <<huffman_trees, quantization_tables, scan_header,
                   compressed_image_data, entropy_calls, decompressed_image_data,
                   mcus, image_data, raw_image_data, scanVars, notDecode>>

\* parser.parse_start_of_scan()?
DecodeStartOfScan ==
    /\ dc_pc = "scan"
    /\ scan_header' = ParseStartOfScan(mmap, marker_marlen_map, overflow_checks)
    /\ IF scan_header'.result = "ok"
       THEN dc_pc' = "image" /\ UNCHANGED dc_result
       ELSE DecodeFails(scan_header'.result)
    /\ UNCHANGED <<huffman_trees, quantization_tables, frame_header,
                   compressed_image_data, entropy_calls, decompressed_image_data,
                   mcus, image_data, raw_image_data, scanVars, notDecode>>

\* parser.parse_image_data(encoded_image_start_index)?
DecodeImageData ==
    /\ dc_pc = "image"
    /\ LET parsed == ParseImageData(mmap, scan_header.start)
       IN  IF parsed.result = "ok"
           THEN /\ compressed_image_data' = parsed.data
                /\ dc_pc' = "validate"
                /\ UNCHANGED dc_result
           ELSE /\ DecodeFails(parsed.result)
                /\ UNCHANGED compressed_image_data
    /\ UNCHANGED <<huffman_trees, quantization_tables, frame_header, scan_header,
                   entropy_calls, decompressed_image_data,
                   mcus, image_data, raw_image_data, scanVars, notDecode>>

\* The validation block: an Err unless every check passes.
DecodeValidate ==
    /\ dc_pc = "validate"
    /\ IF ValidationPasses(frame_header.header, scan_header.header,
                           huffman_trees, quantization_tables)
       THEN dc_pc' = "entropy" /\ UNCHANGED dc_result
       ELSE DecodeFails("err")
    /\ UNCHANGED <<huffman_trees, quantization_tables, frame_header, scan_header,
                   compressed_image_data, entropy_calls, decompressed_image_data,
                   mcus, image_data, raw_image_data, scanVars, notDecode>>

\* BitReader::slice_to_bits, EntropyDecoder::new and entropy_decoder.decode()?
DecodeEntropy ==
    /\ dc_pc = "entropy"
    /\ entropy_calls' = entropy_calls + 1
    /\ LET decoded == DecodeHuffman(SliceToBits(compressed_image_data), huffman_trees,
                                    scan_header.header.scan_component_selectors)
       IN  IF decoded.result = "ok"
           THEN /\ decompressed_image_data' = decoded.data
                /\ dc_pc' = "zigzag"
                /\ UNCHANGED dc_result
           ELSE /\ DecodeFails(decoded.result)
                /\ UNCHANGED decompressed_image_data
    /\ UNCHANGED <<huffman_trees, quantization_tables, frame_header, scan_header,
                   compressed_image_data, mcus, image_data, raw_image_data,
                   scanVars, notDecode>>

\* entropy_decoder.zigzag(decompressed_image_data)?
DecodeZigzag ==
    /\ dc_pc = "zigzag"
    /\ mcus' = ZigzagBlocks(decompressed_image_data, 0,
                            [k \in 1..BLOCK_SIZE |-> ZeroTriple])
    /\ dc_pc' = "dequantize"
    /\ UNCHANGED <<dc_result, huffman_trees, quantization_tables, frame_header,
                   scan_header, compressed_image_data, entropy_calls,
                   decompressed_image_data, image_data, raw_image_data,
                   scanVars, notDecode>>

\* The quantization_table_map loop, dequantizer.dequantize()? and the loop
\* `for block in data` (inverse DCT and level shift of every component).
DecodeDequantize ==
    /\ dc_pc = "dequantize"
    /\ LET frame == frame_header.header
           order == [c \in 1..3 |->
                       scan_header.header.scan_component_selectors[c].component_id]
           qmap == QuantizationTableMap(frame, quantization_tables)
       IN  IF ~AllTablesFound(frame, quantization_tables)
           THEN DecodeFails("err") /\ UNCHANGED image_data
           ELSE IF mcus # << >> /\ \E c \in 1..3 : order[c] \notin DOMAIN qmap
           THEN DecodeFails("err") /\ UNCHANGED image_data
           ELSE /\ image_data' =
                     [b \in 1..Len(mcus) |->
                        LET data == DequantizeMcu(Regroup(mcus[b]), order, qmap)
                        IN  [c \in 1..3 |->
                               LevelShift(PerformIdct(
                                   quantization_tables[1].precision, data[c]))]]
                /\ dc_pc' = "colors"
                /\ UNCHANGED dc_result
    /\ UNCHANGED <<huffman_trees, quantization_tables, frame_header, scan_header,
                   compressed_image_data, entropy_calls, decompressed_image_data,
                   mcus, raw_image_data, scanVars, notDecode>>

\* ColorSpace::convert_ycbcr_to_rgb(image_data) and Ok(raw_image_data).
DecodeColors ==
    /\ dc_pc = "colors"
    /\ raw_image_data' = ConvertYcbcrToRgb(image_data, << >>)
    /\ dc_result' = "ok"
    /\ dc_pc' = "done"
    /\ UNCHANGED <<huffman_trees, quantization_tables, frame_header, scan_header,
                   compressed_image_data, entropy_calls, decompressed_image_data,
                   mcus, image_data, scanVars, notDecode>>

-----------------------------------------------------------------------------
(* The inverse DCT and the level shift of one component of one block, as   *)
(* the closure of `for block in data` applies them                         *)

\* idct.perform_idct(component.to_array())
IdctPerform ==
    /\ id_pc = "idct"
    /\ id_output' = PerformIdct(id_precision, id_mcu)
    /\ id_pc' = "shift"
    /\ UNCHANGED <<id_precision, id_mcu, notIdct>>

\* idct + level_shift
IdctLevelShift ==
    /\ id_pc = "shift"
    /\ id_output' = LevelShift(id_output)
    /\ id_pc' = "done"
    /\ UNCHANGED <<id_precision, id_mcu, notIdct>>

-----------------------------------------------------------------------------
(* EntropyDecoder::decode_huffman, one iteration of its while loop at a    *)
(* time                                                                    *)

\* ac_dc_destination_ids
DestinationIds(selectors) ==
    [i \in 1..Len(selectors) |->
        <<selectors[i].dc_destination_id, selectors[i].ac_destination_id>>]

\* The locals of decode_huffman as the record HuffmanStep works on.
EntropyLocals ==
    [node |-> eh_node, key |-> eh_key, component_ptr |-> eh_component_ptr,
     num_coeffs |-> eh_num_coeffs, batch |-> eh_component_batch,
     image_data |-> eh_image_data, failed |-> FALSE]

\* Up to the loop: the map, the destination ids and the first node_cursor,
\* the DC tree of the first component, or an Err when the map has none.
EntropyBegin ==
    /\ eh_pc = "begin"
    /\ LET map == HuffmanMap(eh_trees)
           first == <<DC, DestinationIds(eh_selectors)[1][1]>>
       IN  IF first \in DOMAIN map
           THEN /\ eh_node' = map[first]
                /\ eh_key' = first
                /\ eh_pc' = "loop"
                /\ UNCHANGED eh_result
           ELSE /\ eh_result' = "err"
                /\ eh_pc' = "done"
                /\ UNCHANGED <<eh_node, eh_key>>
    /\ UNCHANGED <<eh_data, eh_trees, eh_selectors, eh_cursor, eh_component_ptr,
                   eh_num_coeffs, eh_component_batch, eh_image_data, eh_walked,
                   eh_emitted, notEntropy>>

\* One iteration of `while self.cursor < self.data.len()`: a leaf under the
\* cursor is emitted and the next tree selected, an internal node is left
\* by the bit at the cursor; either way the cursor moves on by one.
EntropyStep ==
    /\ eh_pc = "loop"
    /\ eh_cursor < Len(eh_data)
    /\ LET s == HuffmanStep(EntropyLocals, At(eh_data, eh_cursor),
                            HuffmanMap(eh_trees), DestinationIds(eh_selectors))
           at_leaf == eh_node # NoNode /\ eh_node[1] # SENTINEL
           at_internal == eh_node # NoNode /\ eh_node[1] = SENTINEL
       IN  IF s.failed
           THEN /\ eh_result' = "err"
                /\ eh_pc' = "done"
                /\ UNCHANGED <<eh_cursor, eh_node, eh_key, eh_component_ptr, eh_num_coeffs,
                               eh_component_batch, eh_image_data, eh_walked,
                               eh_emitted>>
           ELSE /\ eh_node' = s.node
                /\ eh_key' = s.key
                /\ eh_component_ptr' = s.component_ptr
                /\ eh_num_coeffs' = s.num_coeffs
                /\ eh_component_batch' = s.batch
                /\ eh_image_data' = s.image_data
                /\ eh_cursor' = eh_cursor + 1
                /\ eh_walked' = IF at_internal THEN eh_walked + 1 ELSE eh_walked
                /\ eh_emitted' = IF at_leaf THEN Append(eh_emitted, eh_node[1])
                                            ELSE eh_emitted
                /\ UNCHANGED <<eh_pc, eh_result>>
    /\ UNCHANGED <<eh_data, eh_trees, eh_selectors, notEntropy>>

\* Ok(image_data)
EntropyReturn ==
    /\ eh_pc = "loop"
    /\ eh_cursor >= Len(eh_data)
    /\ eh_result' = "ok"
    /\ eh_pc' = "done"
    /\ UNCHANGED <<eh_data, eh_trees, eh_selectors, eh_cursor, eh_node, eh_key,
                   eh_component_ptr, eh_num_coeffs, eh_component_batch,
                   eh_image_data, eh_walked, eh_emitted, notEntropy>>

-----------------------------------------------------------------------------
(* Dequantizer::dequantize, one MCU at a time                              *)

\* One iteration of `for mcu in self.data`: an Err when a component id of
\* the scan order has no table, else the three products are pushed.
DequantMcu ==
    /\ dq_pc = "loop"
    /\ Len(dq_output) < Len(dq_data)
    /\ IF \E c \in 1..3 : dq_order[c] \notin DOMAIN dq_map
       THEN /\ dq_result' = "err"
            /\ dq_pc' = "done"
            /\ UNCHANGED dq_output
       ELSE /\ dq_output' = Append(dq_output,
                    DequantizeMcu(dq_data[Len(dq_output) + 1], dq_order, dq_map))
            /\ UNCHANGED <<dq_pc, dq_result>>
    /\ UNCHANGED <<dq_data, dq_order, dq_map, notDequant>>

\* Ok(dequantized_coefficients)
DequantReturn ==
    /\ dq_pc = "loop"
    /\ Len(dq_output) >= Len(dq_data)
    /\ dq_result' = "ok"
    /\ dq_pc' = "done"
    /\ UNCHANGED <<dq_data, dq_order, dq_map, dq_output, notDequant>>

-----------------------------------------------------------------------------
(* The buffers the scanner is run on                                       *)

MaxPad == 62
MaxGap == 1

ScanHeads == {<<GLOBAL, SOI>>, <<RST0>>, <<>>}

ScanMids ==
    { <<>>,
      <<GLOBAL>>,
      <<GLOBAL, DHT, 0, 3, 0>>,       \* a DHT segment, declared length 3
      <<GLOBAL, DHT, 0, 1>>,          \* declared length below 2
      <<GLOBAL, DHT>>,                \* no length bytes
      <<GLOBAL, DQT, 0, 67>>,         \* declared payload past the end
      <<GLOBAL, EOI>> }

ScanTails == {<<GLOBAL, EOI>>, <<>>}

ScanBuffer(head, pre, mid, gap, tail) ==
    head \o Zeros(pre) \o mid \o Zeros(gap) \o tail

ScanBuffers ==
    {ScanBuffer(h, pre, mid, gap, t) :
        h \in ScanHeads, pre \in 0..MaxPad, mid \in ScanMids,
        gap \in 0..MaxGap, t \in ScanTails}

-----------------------------------------------------------------------------
(* Specifications                                                          *)

InitScan ==
    /\ mmap \in ScanBuffers
    /\ cursor = 0
    /\ all_markers = AllMarkers
    /\ marker_marlen_map = << >>
    /\ window_log = << >>
    /\ entry \in {"setup", "decoder"}
    /\ scan_pc = IF entry = "setup" THEN "check" ELSE "scan"
    /\ scan_result = "none"
    /\ overflow_checks \in BOOLEAN
    /\ HuffIdle
    /\ StuffIdle
    /\ ZigIdle
    /\ DecodeIdle
    /\ IdctIdle
    /\ EntropyIdle
    /\ DequantIdle
    /\ WorkersIdle
    /\ AgainIdle

NextScan ==
    \/ CheckStartOfImage
    \/ ScanWindow
    \/ ScanReturn
    \/ SetupReturn
    \/ DecoderReturn

SpecScan == InitScan /\ [][NextScan]_vars

\* Decoder::setup called up to MaxCalls times on one Decoder.
InitAgain ==
    /\ mmap \in ScanBuffers
    /\ cursor = 0
    /\ all_markers = AllMarkers
    /\ marker_marlen_map = << >>
    /\ window_log = << >>
    /\ entry = "setup"
    /\ scan_pc = "check"
    /\ scan_result = "none"
    /\ overflow_checks \in BOOLEAN
    /\ sa_calls = 1
    /\ sa_first = << >>
    /\ WorkersIdle
    /\ HuffIdle
    /\ StuffIdle
    /\ ZigIdle
    /\ DecodeIdle
    /\ IdctIdle
    /\ EntropyIdle
    /\ DequantIdle

NextAgain ==
    \/ CheckStartOfImage
    \/ ScanWindow
    \/ ScanReturn
    \/ SetupReturn
    \/ SetupAgain

SpecAgain == InitAgain /\ [][NextAgain]_vars

\* Decoder::setup with the workers of every window as steps.
InitWorkers ==
    /\ mmap \in ScanBuffers
    /\ cursor = 0
    /\ all_markers = AllMarkers
    /\ marker_marlen_map = << >>
    /\ window_log = << >>
    /\ entry = "setup"
    /\ scan_pc = "check"
    /\ scan_result = "none"
    /\ overflow_checks \in BOOLEAN
    /\ WorkersIdle
    /\ AgainIdle
    /\ HuffIdle
    /\ StuffIdle
    /\ ZigIdle
    /\ DecodeIdle
    /\ IdctIdle
    /\ EntropyIdle
    /\ DequantIdle

NextWorkers ==
    \/ CheckStartOfImage
    \/ WindowBegin
    \/ WorkerFinish
    \/ MergeNext
    \/ WindowEnd
    \/ ScanReturn
    \/ SetupReturn

SpecWorkers == InitWorkers /\ [][NextWorkers]_vars

InitHuff ==
    /\ hf_code_freqs \in HuffInputs
    /\ hf_nodes = << >>
    /\ hf_heap = {}
    /\ hf_pc = "push"
    /\ hf_root = NONE
    /\ hf_result = "none"
    /\ ScanIdle
    /\ StuffIdle
    /\ ZigIdle
    /\ DecodeIdle
    /\ IdctIdle
    /\ EntropyIdle
    /\ DequantIdle
    /\ WorkersIdle
    /\ AgainIdle

NextHuff ==
    \/ HuffPush
    \/ HuffMerge
    \/ HuffRoot

SpecHuff == InitHuff /\ [][NextHuff]_vars

\* Entropy data: MaxFill filler bytes, then up to MaxTokens tokens, each a
\* data byte, a stuffed 0xFF (FF 00) or a restart marker (FF D0).
MaxFill == 64
MaxTokens == 3
MaxStart == 1

Filler(n) == [i \in 1..n |-> 1]

StuffTokens == {<<STUFF>>, <<2>>, <<GLOBAL, STUFF>>, <<GLOBAL, RST0>>}

RECURSIVE Flatten(_)
Flatten(seqs) ==
    IF seqs = << >> THEN << >> ELSE Head(seqs) \o Flatten(Tail(seqs))

StuffDatas ==
    {Filler(fill) \o Flatten(toks) :
        fill \in 0..MaxFill,
        toks \in UNION {[1..n -> StuffTokens] : n \in 0..MaxTokens}}

InitStuff ==
    /\ st_start \in 0..MaxStart
    /\ \E data \in StuffDatas :
          st_buffer = Filler(st_start) \o data \o <<GLOBAL, EOI>>
    /\ st_current_index = st_start
    /\ st_temp_chunk = Zeros(LANE_COUNT)
    /\ st_output = << >>
    /\ st_pc = "begin"
    /\ st_result = "none"
    /\ ScanIdle
    /\ HuffIdle
    /\ ZigIdle
    /\ DecodeIdle
    /\ IdctIdle
    /\ EntropyIdle
    /\ DequantIdle
    /\ WorkersIdle
    /\ AgainIdle

NextStuff ==
    \/ StuffBegin
    \/ StuffWindow
    \/ StuffReturn

SpecStuff == InitStuff /\ [][NextStuff]_vars

\* Decoded triples: the i-th triple (0-based) of a run is
\* <<(base + i) mod 256, i mod 3, i mod 5>>, for up to MaxTriples triples.
MaxTriples == 130
MaxBase == 1

TripleRun(base, n) ==
    [k \in 1..n |-> <<(base + k - 1) % 256, (k - 1) % 3, (k - 1) % 5>>]

InitZig ==
    /\ \E base \in 0..MaxBase, n \in 0..MaxTriples : zz_data = TripleRun(base, n)
    /\ zz_cursor = 0
    /\ zz_temp_chunk = [k \in 1..BLOCK_SIZE |-> ZeroTriple]
    /\ zz_unzigzagged = << >>
    /\ zz_pc = "loop"
    /\ ScanIdle
    /\ HuffIdle
    /\ StuffIdle
    /\ DecodeIdle
    /\ IdctIdle
    /\ EntropyIdle
    /\ DequantIdle
    /\ WorkersIdle
    /\ AgainIdle

NextZig ==
    \/ ZigBlock
    \/ ZigReturn

SpecZig == InitZig /\ [][NextZig]_vars

\* Files for Decoder::decode: SOI, two DQT segments, SOF0, the DHT segments,
\* SOS, entropy-coded bytes and EOI.  The first DHT segment declares two
\* symbols in its histogram and carries 0..2 symbol bytes; the frame and the
\* scan declare 1 or 3 components each.  The image is 8 lines of 1 to
\* MaxWidthBlocks blocks, and the file holds 24 bytes of image data for each
\* block (192 bits), 4 of which are the last bytes of the scan header, which
\* parse_start_of_scan leaves in the image data of a colour scan.
MaxWidthBlocks == 2
MaxCarried == 2

EntropyBytes(blocks) == 24 * blocks - 4

DqtSegment(info) ==
    <<GLOBAL, DQT, 0, 67, info>> \o [k \in 1..QUANTIZATION_TABLE_BYTES |-> k]

SofSegment(nf, width, tq) ==
    <<GLOBAL, SOF0, 0, 8 + 3 * nf, 8, 0, 8, 0, width, nf>> \o
    Flatten([i \in 1..nf |-> <<i, 33, IF i = 1 THEN 0 ELSE tq>>])

DhtSegment(info, carried) ==
    <<GLOBAL, DHT, 0, 19 + carried, info, 1, 1>> \o Zeros(14) \o
    [k \in 1..carried |-> 4 + k]

SosSegment(ns) ==
    <<GLOBAL, SOS, 0, 6 + 2 * ns, ns>> \o
    Flatten([i \in 1..ns |-> <<i, IF i = 1 THEN 0 ELSE 17>>]) \o <<0, 63, 0>>

\* DC0 AC0 DC1 AC1; three DC tables and one AC table; three segments; five
\* segments; DC0 and AC0 defined twice.
DhtInfos ==
    {<<0, 16, 1, 17>>, <<0, 2, 1, 17>>, <<0, 16, 1>>, <<0, 16, 1, 17, 2>>,
     <<0, 16, 0, 16>>}

DecodeFile(head, infos, carried, nf, ns, blocks, tq) ==
    head \o DqtSegment(0) \o DqtSegment(1) \o SofSegment(nf, 8 * blocks, tq) \o
    Flatten([k \in 1..Len(infos) |->
                DhtSegment(infos[k], IF k = 1 THEN carried ELSE MaxCarried)]) \o
    SosSegment(ns) \o [k \in 1..EntropyBytes(blocks) |-> 85] \o <<GLOBAL, EOI>>

DecodeFiles ==
    {DecodeFile(head, infos, carried, nf, ns, blocks, tq) :
        head \in {<<GLOBAL, SOI>>, <<0, 0>>}, infos \in DhtInfos,
        carried \in 0..MaxCarried, nf \in {1, 3}, ns \in {1, 3},
        blocks \in 1..MaxWidthBlocks, tq \in {0, 1}}

InitDecode ==
    /\ mmap \in DecodeFiles
    /\ cursor = 0
    /\ all_markers = AllMarkers
    /\ marker_marlen_map = << >>
    /\ window_log = << >>
    /\ entry = "decode"
    /\ scan_pc = "check"
    /\ scan_result = "none"
    /\ overflow_checks \in BOOLEAN
    /\ dc_pc = "setup"
    /\ dc_result = "none"
    /\ huffman_trees = << >>
    /\ quantization_tables = << >>
    /\ frame_header = Failed("none")
    /\ scan_header = Failed("none")
    /\ compressed_image_data = << >>
    /\ entropy_calls = 0
    /\ decompressed_image_data = << >>
    /\ mcus = << >>
    /\ image_data = << >>
    /\ raw_image_data = << >>
    /\ HuffIdle
    /\ StuffIdle
    /\ ZigIdle
    /\ IdctIdle
    /\ EntropyIdle
    /\ DequantIdle
    /\ WorkersIdle
    /\ AgainIdle

NextDecode ==
    \/ CheckStartOfImage
    \/ ScanWindow
    \/ ScanReturn
    \/ SetupReturn
    \/ DecodeSetupFailed
    \/ DecodeHuffmanTrees
    \/ DecodeQuantTable
    \/ DecodeStartOfFrame
    \/ DecodeStartOfScan
    \/ DecodeImageData
    \/ DecodeValidate
    \/ DecodeEntropy
    \/ DecodeZigzag
    \/ DecodeDequantize
    \/ DecodeColors

SpecDecode == InitDecode /\ [][NextDecode]_vars

\* Coefficient blocks for the inverse DCT: all zero but for one coefficient
\* of value 0..MaxCoeff, at any of the 64 positions.
MaxCoeff == 2

CoefficientBlocks ==
    {[k \in 1..BLOCK_SIZE |-> IF k = pos THEN v ELSE 0] :
        pos \in 1..BLOCK_SIZE, v \in 0..MaxCoeff}

InitIdct ==
    /\ id_precision \in {EightBit, SixteenBit}
    /\ id_mcu \in CoefficientBlocks
    /\ id_output = << >>
    /\ id_pc = "idct"
    /\ ScanIdle
    /\ HuffIdle
    /\ StuffIdle
    /\ ZigIdle
    /\ DecodeIdle
    /\ EntropyIdle
    /\ DequantIdle
    /\ WorkersIdle
    /\ AgainIdle

NextIdct ==
    \/ IdctPerform
    \/ IdctLevelShift

SpecIdct == InitIdct /\ [][NextIdct]_vars

\* Inputs of decode_huffman: four trees (DC0, AC0, DC1, AC1), each one of
\* three shapes, three scan components, and a bit stream that is the
\* concatenation of up to MaxWords complete code words, the n-th word
\* (n = 0, 1, ...) taken from the tree of component n mod 3: its DC tree
\* when n div 3 is a multiple of 64, its AC tree otherwise.
MaxWords == 5

\* Besides, the two streams of MaxRun equal bits: long enough for more than
\* 64 triples, so that the selection returns from the AC to the DC trees.
MaxRun == 400

BitRuns == {[i \in 1..MaxRun |-> bit] : bit \in {0, 1}}

\* Code words 0 and 1.
EntropyTreeA == MergeOf(LeafOf(1, 1), LeafOf(2, 1))

\* Code words 0, 10 and 11.
EntropyTreeB == MergeOf(LeafOf(3, 1), MergeOf(LeafOf(4, 1), LeafOf(5, 1)))

\* Code words 0 and 1, the first for the symbol 0xFF: a tree
\* HuffmanTree::from returns for [(255, 2), (1, 2), (2, 3)].
EntropyTreeC == MergeOf(LeafOf(SENTINEL, 2), LeafOf(1, 2))

EntropyTrees == {EntropyTreeA, EntropyTreeB, EntropyTreeC}

EntropyTreeLists ==
    {<<[class |-> DC, destination_id |-> 0, root |-> a],
       [class |-> AC, destination_id |-> 0, root |-> b],
       [class |-> DC, destination_id |-> 1, root |-> b],
       [class |-> AC, destination_id |-> 1, root |-> a]>> :
        a \in EntropyTrees, b \in EntropyTrees}

EntropySelectors ==
    <<[component_id |-> 1, dc_destination_id |-> 0, ac_destination_id |-> 0],
      [component_id |-> 2, dc_destination_id |-> 1, ac_destination_id |-> 1],
      [component_id |-> 3, dc_destination_id |-> 1, ac_destination_id |-> 1]>>

\* The root of the tree the n-th symbol of a scan is coded with.
SelectedRoot(trees, selectors, n) ==
    LET c == (n % Len(selectors)) + 1
        coefficient == n \div Len(selectors)
    IN  HuffmanMap(trees)[IF coefficient % BLOCK_SIZE = 0
                          THEN <<DC, selectors[c].dc_destination_id>>
                          ELSE <<AC, selectors[c].ac_destination_id>>]

\* The code words of a tree: the paths from the node to its leaves.
RECURSIVE CodeWords(_, _)
CodeWords(node, prefix) ==
    IF node[3] = NoNode /\ node[4] = NoNode THEN {prefix}
    ELSE CodeWords(node[3], Append(prefix, 0)) \cup
         CodeWords(node[4], Append(prefix, 1))

\* The streams of the words n, n + 1, ..., k - 1.
RECURSIVE CodeWordStreams(_, _, _, _)
CodeWordStreams(trees, selectors, n, k) ==
    IF n >= k THEN {<< >>}
    ELSE {word \o rest :
            word \in CodeWords(SelectedRoot(trees, selectors, n), << >>),
            rest \in CodeWordStreams(trees, selectors, n + 1, k)}

InitEntropy ==
    /\ eh_trees \in EntropyTreeLists
    /\ eh_selectors = EntropySelectors
    /\ \/ \E k \in 0..MaxWords :
             eh_data \in CodeWordStreams(eh_trees, eh_selectors, 0, k)
       \/ eh_data \in BitRuns
    /\ eh_cursor = 0
    /\ eh_node = NoNode
    /\ eh_key = << >>
    /\ eh_component_ptr = 0
    /\ eh_num_coeffs = 0
    /\ eh_component_batch = << >>
    /\ eh_image_data = << >>
    /\ eh_walked = 0
    /\ eh_emitted = << >>
    /\ eh_pc = "begin"
    /\ eh_result = "none"
    /\ ScanIdle
    /\ HuffIdle
    /\ StuffIdle
    /\ ZigIdle
    /\ DecodeIdle
    /\ IdctIdle
    /\ DequantIdle
    /\ WorkersIdle
    /\ AgainIdle

NextEntropy ==
    \/ EntropyBegin
    \/ EntropyStep
    \/ EntropyReturn

SpecEntropy == InitEntropy /\ [][NextEntropy]_vars

\* Inputs of the dequantizer: up to MaxBlocks MCUs whose first component
\* holds one coefficient value at every position, the second the values
\* v, v + 1, ... and the third 0, 1, ..., 63; a table of one entry value
\* for the components 1 and 3 and the table 1, 2, ..., 64 for component 2;
\* the scan order 1, 2, 3, or 1, 2, 4 with a component that has no table.
MaxBlocks == 2

DequantValues == {0, 1, 2, 16, 128, 255}

DequantBlock(v) ==
    <<[k \in 1..BLOCK_SIZE |-> v],
      [k \in 1..BLOCK_SIZE |-> (v + k - 1) % 256],
      [k \in 1..BLOCK_SIZE |-> k - 1]>>

DequantTable(id, elements) ==
    [table_id |-> id, precision |-> EightBit, elements |-> elements]

DequantMaps ==
    {[id \in 1..3 |->
        IF id = 2 THEN DequantTable(1, [k \in 1..BLOCK_SIZE |-> k])
                  ELSE DequantTable(0, [k \in 1..BLOCK_SIZE |-> q])] :
        q \in DequantValues}

InitDequant ==
    /\ \E n \in 0..MaxBlocks, v \in DequantValues :
          dq_data = [b \in 1..n |-> DequantBlock(v)]
    /\ dq_order \in {<<1, 2, 3>>, <<1, 2, 4>>}
    /\ dq_map \in DequantMaps
    /\ dq_output = << >>
    /\ dq_pc = "loop"
    /\ dq_result = "none"
    /\ ScanIdle
    /\ HuffIdle
    /\ StuffIdle
    /\ ZigIdle
    /\ DecodeIdle
    /\ IdctIdle
    /\ EntropyIdle
    /\ WorkersIdle
    /\ AgainIdle

NextDequant ==
    \/ DequantMcu
    \/ DequantReturn

SpecDequant == InitDequant /\ [][NextDequant]_vars

-----------------------------------------------------------------------------
(* Properties of the Huffman tree builder                                  *)

\* C2: HuffmanTree::from on N >= 1 pairs returns a tree with exactly N
\* leaves, one per input symbol and all reachable from the root, and N-1
\* internal nodes: no node popped from the heap is dropped.
C2_AllLeavesKept ==
    (hf_pc = "done" /\ Len(hf_code_freqs) >= 1) =>
        /\ hf_result = "tree"
        /\ Leaves(hf_nodes, hf_root) = 1..Len(hf_code_freqs)
        /\ Cardinality(Internals(hf_nodes, hf_root)) = Len(hf_code_freqs) - 1

\* C18: for every input list of at least two (symbol, weight) pairs,
\* HuffmanTree::from returns a tree whose root exists and is an internal
\* node with both a left and a right child.
C18_RootIsInternal ==
    (hf_pc = "done" /\ Len(hf_code_freqs) >= 2) =>
        /\ hf_result = "tree"
        /\ hf_root # NONE
        /\ hf_nodes[hf_root].left # NONE
        /\ hf_nodes[hf_root].right # NONE

\* The nodes at depth d below node n (NONE: no node).
RECURSIVE NodesAtDepth(_, _, _)
NodesAtDepth(nodes, n, d) ==
    IF n = NONE THEN {}
    ELSE IF d = 0 THEN {n}
    ELSE NodesAtDepth(nodes, nodes[n].left, d - 1) \cup
         NodesAtDepth(nodes, nodes[n].right, d - 1)

\* The sum of 2^(MaxWeight - length) over the pairs from k on.
RECURSIVE KraftSum(_, _)
KraftSum(code_freqs, k) ==
    IF k > Len(code_freqs) THEN 0
    ELSE 2 ^ (MaxWeight - code_freqs[k][2]) + KraftSum(code_freqs, k + 1)

\* The list is the code_freq of a DHT segment with a valid prefix-code
\* length histogram: the lengths ascend, as flat_lengths lists them, and
\* satisfy the Kraft inequality.
ValidCodeLengths(code_freqs) ==
    /\ Len(code_freqs) >= 1
    /\ \A k \in 1..(Len(code_freqs) - 1) : code_freqs[k][2] <= code_freqs[k + 1][2]
    /\ KraftSum(code_freqs, 1) <= 2 ^ MaxWeight

\* C21: for a DHT segment whose histogram is a valid prefix-code length
\* histogram, the tree HuffmanTree::from builds from its (symbol, length)
\* pairs holds every symbol's leaf at a depth equal to the declared length.
C21_LeafDepthIsCodeLength ==
    (hf_pc = "done" /\ ValidCodeLengths(hf_code_freqs)) =>
        /\ hf_result = "tree"
        /\ \A k \in 1..Len(hf_code_freqs) :
              k \in NodesAtDepth(hf_nodes, hf_root, hf_code_freqs[k][2])

\* C27: in every tree the builder produces from the (symbol, length) pairs
\* of a DHT segment, a node carrying the value 0xFF is an internal node with
\* two children, so the test `code != u8::MAX` of decode_huffman never takes
\* a leaf for an internal node.
C27_SentinelIsInternal ==
    (hf_pc = "done" /\ hf_result = "tree") =>
        \A n \in Subtree(hf_nodes, hf_root) :
            hf_nodes[n].code = SENTINEL =>
                (hf_nodes[n].left # NONE /\ hf_nodes[n].right # NONE)

-----------------------------------------------------------------------------
(* Properties of byte-stuffing removal                                     *)

\* Every 0xFF of the sequence is immediately followed by 0x00.
FullyStuffed(data) ==
    \A i \in 1..Len(data) :
        data[i] = GLOBAL => (i < Len(data) /\ data[i + 1] = STUFF)

\* Re-stuffing: 0x00 inserted after every 0xFF.
RECURSIVE Restuff(_)
Restuff(bytes) ==
    IF bytes = << >> THEN << >>
    ELSE (IF Head(bytes) = GLOBAL THEN <<GLOBAL, STUFF>> ELSE <<Head(bytes)>>)
         \o Restuff(Tail(bytes))

\* C3: for entropy data of any length in which every 0xFF is followed by
\* 0x00, parse_image_data returns the data with exactly the stuffed 0x00
\* bytes removed: re-stuffing the output reproduces the input.
C3_UnstuffRoundTrip ==
    (st_result = "ok" /\ FullyStuffed(EntropyData(st_buffer, st_start))) =>
        Restuff(st_output) = EntropyData(st_buffer, st_start)

\* The index of the first 0xFF at or after start that is followed by a byte
\* other than 0x00 (the EOI marker at the latest).
FirstUnstuffed(buf, start) ==
    CHOOSE i \in start..(Len(buf) - MARKER_SIZE) :
        /\ At(buf, i) = GLOBAL /\ At(buf, i + 1) # STUFF
        /\ \A j \in start..(i - 1) : ~(At(buf, j) = GLOBAL /\ At(buf, j + 1) # STUFF)

\* C25: the output of parse_image_data holds only bytes located before the
\* first 0xFF that is followed by a byte other than 0x00: that 0xFF and
\* every byte after it are not emitted, so the output is no longer than
\* the data before it.
C25_StopsAtUnstuffedFF ==
    st_result = "ok" =>
        Len(st_output) <= FirstUnstuffed(st_buffer, st_start) - st_start

-----------------------------------------------------------------------------
(* Properties of the zig-zag pass                                          *)

\* The standard JPEG zig-zag scan of an 8x8 block, from its definition: the
\* anti-diagonals d = row + col in order, odd ones walked with the row
\* increasing and even ones with the row decreasing.
DiagonalSize(d) == Min(d, 7) - (IF d > 7 THEN d - 7 ELSE 0) + 1

RECURSIVE CellsBefore(_)
CellsBefore(d) == IF d = 0 THEN 0 ELSE CellsBefore(d - 1) + DiagonalSize(d - 1)

\* The scan position of the coefficient at raster index idx.
ScanPosition(idx) ==
    LET row == idx \div 8
        col == idx % 8
        d == row + col
        first == IF d > 7 THEN d - 7 ELSE 0
    IN  CellsBefore(d) + (IF d % 2 = 1 THEN row - first ELSE Min(d, 7) - row)

\* The raster index of the k-th element of the scan.
RasterIndex(k) == CHOOSE idx \in 0..(BLOCK_SIZE - 1) : ScanPosition(idx) = k

\* C4: zigzag maps each full block of 64 triples from scan order to raster
\* order: the input at scan position k of a block lands at the raster
\* index of the k-th element of the standard zig-zag scan (1 -> 1, 2 -> 8,
\* 3 -> 16, 4 -> 9, ...).
C4_ScanToRaster ==
    zz_pc = "done" =>
        \A b \in 0..((Len(zz_data) \div BLOCK_SIZE) - 1) :
            \A k \in 0..(BLOCK_SIZE - 1) :
                At(zz_unzigzagged[b + 1], RasterIndex(k)) =
                    At(zz_data, b * BLOCK_SIZE + k)

-----------------------------------------------------------------------------
(* Properties of Decoder::decode                                           *)

\* decode has got its parser from setup.
ParserBuilt == entry = "decode" /\ scan_result = "parser"

\* C1: a successful decode returns image_width x image_height triples, 64
\* for each decoded block: no block is dropped or overwritten by a later one.
C1_OneTriplePerPixel ==
    dc_result = "ok" =>
        /\ Len(raw_image_data) =
              frame_header.header.image_width * frame_header.header.image_height
        /\ Len(raw_image_data) = BLOCK_SIZE * Len(mcus)

\* The sum of the 16 histogram counts of the DHT segment at payload offset.
HistogramSum(buf, offset) == Len(FlatLengths(SubSeq(buf, offset + 2, offset + 17), 1))

\* A recorded DHT segment that lies inside the buffer, has its 17 header
\* bytes, and carries fewer symbol bytes than its histogram counts.
CarriesTooFew(buf, marlen) ==
    /\ marlen[1] + marlen[2] <= Len(buf)
    /\ marlen[2] >= 17
    /\ marlen[2] - 17 < HistogramSum(buf, marlen[1])

\* C5: when one of the four DHT segments of a file carries fewer symbol
\* bytes than the sum of its histogram counts, parse_huffman_trees (the
\* first stage of decode) returns an error: decode ends with that error, it
\* does not panic, and no tree has been built.
C5_TruncatedDhtIsError ==
    ( /\ ParserBuilt
      /\ dc_pc # "setup"
      /\ DHT \in DOMAIN marker_marlen_map
      /\ Len(marker_marlen_map[DHT]) = 4
      /\ \E k \in 1..Len(marker_marlen_map[DHT]) :
            CarriesTooFew(mmap, marker_marlen_map[DHT][k]) )
    => (dc_pc = "done" /\ dc_result = "err" /\ huffman_trees = << >>)

\* The component counts the frame header and the scan header of the file
\* declare stand for different component types.
HeaderTypesDiffer(buf, map) ==
    /\ SOF0 \in DOMAIN map
    /\ SOS \in DOMAIN map
    /\ InBuffer(buf, map[SOF0][1][1] + 5)
    /\ InBuffer(buf, map[SOS][1][1])
    /\ KnownComponentCount(At(buf, map[SOF0][1][1] + 5))
    /\ KnownComponentCount(At(buf, map[SOS][1][1]))
    /\ ComponentTypeFrom(At(buf, map[SOF0][1][1] + 5)) #
          ComponentTypeFrom(At(buf, map[SOS][1][1]))

\* The number of recorded DHT segments of a class.
TablesOfClass(buf, map, class) ==
    Cardinality({k \in 1..Len(map[DHT]) :
                    /\ InBuffer(buf, map[DHT][k][1])
                    /\ HtType(At(buf, map[DHT][k][1])) = class})

TableCountsDiffer(buf, map) ==
    /\ DHT \in DOMAIN map
    /\ \/ TablesOfClass(buf, map, AC) # ExpectedTables[1]
       \/ TablesOfClass(buf, map, DC) # ExpectedTables[2]

\* EntropyDecoder::decode is called at most once, and only when the
\* validation block has passed.
EntropyOnlyAfterValidation ==
    entropy_calls > 0 =>
        /\ entropy_calls = 1
        /\ frame_header.result = "ok"
        /\ scan_header.result = "ok"
        /\ ValidationPasses(frame_header.header, scan_header.header,
                            huffman_trees, quantization_tables)

\* C8: entropy decoding starts only after validation has passed, and when
\* the component types of the frame and scan headers differ, or the number
\* of AC or DC tables is not the schema's, decode returns an error and
\* EntropyDecoder::decode is never called.
C8_ValidationBeforeEntropy ==
    /\ EntropyOnlyAfterValidation
    /\ ( /\ ParserBuilt
         /\ dc_pc = "done"
         /\ \/ HeaderTypesDiffer(mmap, marker_marlen_map)
            \/ TableCountsDiffer(mmap, marker_marlen_map) )
       => (dc_result = "err" /\ entropy_calls = 0)

\* parse_huffman_trees has been called on the parser's marlen map.
HuffmanTreesParsed == ParserBuilt /\ dc_pc # "setup"

\* C11: whenever the marlen map holds a number of DHT segments other than
\* 4, fewer or more, parse_huffman_trees returns an error value: decode
\* ends with that error, not with a panic, and no tree list is returned.
C11_WrongDhtCountIsError ==
    ( /\ HuffmanTreesParsed
      /\ DHT \in DOMAIN marker_marlen_map
      /\ Len(marker_marlen_map[DHT]) # 4 )
    => (dc_pc = "done" /\ dc_result = "err" /\ huffman_trees = << >>)

\* The (class, destination_id) key of the k-th tree.
TreeKey(trees, k) == <<trees[k].class, trees[k].destination_id>>

\* decode has passed validation: it is about to call, or has called,
\* EntropyDecoder::decode.
EntropyReached == dc_pc = "entropy" \/ entropy_calls > 0

\* C12: whenever decode passes validation and reaches entropy decoding,
\* the Huffman trees have pairwise distinct (class, destination_id) keys,
\* and the map huffman_map builds has one entry per tree.
C12_DistinctTreeKeys ==
    EntropyReached =>
        /\ \A i, j \in 1..Len(huffman_trees) :
              i # j => TreeKey(huffman_trees, i) # TreeKey(huffman_trees, j)
        /\ Cardinality(DOMAIN HuffmanMap(huffman_trees)) = Len(huffman_trees)

\* parse_quant_table has returned its tables.
QuantTablesParsed == ParserBuilt /\ dc_pc \notin {"setup", "quant"} /\ quantization_tables # << >>

\* The destination id a DQT segment declares: the low 4 bits of its first
\* payload byte (Pq in the high 4 bits, Tq in the low 4).
DeclaredTableId(buf, marlen) == At(buf, marlen[1]) % 16

\* C13: parse_quant_table gives each table the destination id encoded in
\* the first payload byte of its DQT segment, so segments declaring
\* different ids yield tables with different ids.
C13_TableIdFromSegment ==
    QuantTablesParsed =>
        /\ Len(quantization_tables) = Len(marker_marlen_map[DQT])
        /\ \A k \in 1..Len(quantization_tables) :
              quantization_tables[k].table_id =
                  DeclaredTableId(mmap, marker_marlen_map[DQT][k])

\* C24: for a DQT segment with payload at offset o, the 64 elements of the
\* parsed table are the bytes at o+1 .. o+64, the 64 bytes that follow the
\* precision/id byte, in the order they appear.
C24_TableElementsFollowInfoByte ==
    QuantTablesParsed =>
        \A k \in 1..Len(quantization_tables) :
            LET o == marker_marlen_map[DQT][k][1]
            IN  quantization_tables[k].elements =
                    [i \in 1..QUANTIZATION_TABLE_BYTES |-> At(mmap, o + i)]

\* parse_start_of_scan has returned a header for an SOS payload whose
\* component-count byte is 3.
ColourScanParsed ==
    /\ ParserBuilt
    /\ scan_header.result = "ok"
    /\ At(mmap, marker_marlen_map[SOS][1][1]) = 3

\* C14: for an SOS payload at offset o with Ns = 3, parse_start_of_scan
\* returns o + 1 + 2 * Ns + 3 as the start of the entropy-coded data, and
\* the spectral-start, spectral-end and approximation bytes are the three
\* bytes just before that offset.
C14_ScanHeaderLayout ==
    ColourScanParsed =>
        LET o == marker_marlen_map[SOS][1][1]
            Ns == At(mmap, o)
            start == o + 1 + 2 * Ns + 3
        IN  /\ scan_header.start = start
            /\ scan_header.header.start_of_spectral = At(mmap, start - 3)
            /\ scan_header.header.end_of_spectral = At(mmap, start - 2)
            /\ scan_header.header.successive_approx_bit_position_high =
                   At(mmap, start - 1) \div 16
            /\ scan_header.header.point_transform = At(mmap, start - 1) % 16

\* parse_huffman_trees has returned its list of trees.
HuffmanTreesReturned == HuffmanTreesParsed /\ huffman_trees # << >>

\* The first payload bytes of the recorded DHT segments, in the order of
\* the marlen list.
DhtInfoBytes == [k \in 1..Len(marker_marlen_map[DHT]) |->
                    At(mmap, marker_marlen_map[DHT][k][1])]

\* C15: parse_huffman_trees returns one tree per DHT segment of the marlen
\* map, in file order (the marlen list is in ascending offset order), the
\* i-th tree tagged with class = bit 4 and destination_id = low 4 bits of
\* the first payload byte of the i-th segment; segments DC0, AC0, DC1, AC1
\* give classes [DC, AC, DC, AC] and ids [0, 0, 1, 1].
C15_TreesInFileOrder ==
    HuffmanTreesReturned =>
        /\ Len(huffman_trees) = Len(marker_marlen_map[DHT])
        /\ \A i, j \in 1..Len(marker_marlen_map[DHT]) :
              i < j => marker_marlen_map[DHT][i][1] < marker_marlen_map[DHT][j][1]
        /\ \A i \in 1..Len(huffman_trees) :
              /\ huffman_trees[i].class = (DhtInfoBytes[i] \div 16) % 2
              /\ huffman_trees[i].destination_id = DhtInfoBytes[i] % 16
        /\ DhtInfoBytes = <<0, 16, 1, 17>> =>
              /\ [i \in 1..4 |-> huffman_trees[i].class] = <<DC, AC, DC, AC>>
              /\ [i \in 1..4 |-> huffman_trees[i].destination_id] = <<0, 0, 1, 1>>

\* Four trees have been returned for segments DC0, AC0, DC1, AC1.
C15_FourTreesReturned ==
    /\ HuffmanTreesReturned
    /\ Len(huffman_trees) = 4
    /\ DhtInfoBytes = <<0, 16, 1, 17>>

\* parse_start_of_frame has returned a header for an SOF0 payload whose
\* component-count byte is 3.
ColourFrameParsed ==
    /\ ParserBuilt
    /\ frame_header.result = "ok"
    /\ At(mmap, marker_marlen_map[SOF0][1][1] + 5) = 3

\* C17: for an SOF0 payload at offset o with component count 3,
\* parse_start_of_frame returns image_height = the big-endian u16 at
\* o+1..o+2, image_width = the one at o+3..o+4, component_type = Color and
\* three components, component i (0..2) with component_id = byte o+6+3i,
\* horizontal and vertical factor = high and low nibble of byte o+7+3i, and
\* quant table id = byte o+8+3i.
C17_FrameHeaderLayout ==
    ColourFrameParsed =>
        LET o == marker_marlen_map[SOF0][1][1]
            header == frame_header.header
        IN  /\ header.image_height = 256 * At(mmap, o + 1) + At(mmap, o + 2)
            /\ header.image_width = 256 * At(mmap, o + 3) + At(mmap, o + 4)
            /\ header.component_type = Color
            /\ Len(header.components) = 3
            /\ \A i \in 0..2 :
                  /\ header.components[i + 1].component_id = At(mmap, o + 6 + 3 * i)
                  /\ header.components[i + 1].horizontal_factor =
                         At(mmap, o + 7 + 3 * i) \div 16
                  /\ header.components[i + 1].vertical_factor =
                         At(mmap, o + 7 + 3 * i) % 16
                  /\ header.components[i + 1].qt_table_id = At(mmap, o + 8 + 3 * i)

\* A frame header of three components has been parsed, its sampling byte
\* with different nibbles and its dimensions with different bytes.
C17_ColourFrameSeen ==
    /\ ColourFrameParsed
    /\ frame_header.header.components[1].horizontal_factor #
           frame_header.header.components[1].vertical_factor
    /\ frame_header.header.image_width = 16
    /\ frame_header.header.components[3].qt_table_id = 1

-----------------------------------------------------------------------------
(* Properties of the dequantizer                                           *)

\* C28: each value Dequantizer::dequantize produces is the integer product
\* of the coefficient and the entry of the table selected for the
\* component; no product is reduced modulo 256, for any coefficient and
\* table entry in 0..255.
C28_ProductNotWrapped ==
    dq_result = "ok" =>
        /\ Len(dq_output) = Len(dq_data)
        /\ \A b \in 1..Len(dq_output) : \A c \in 1..3 : \A k \in 1..BLOCK_SIZE :
              dq_output[b][c][k] =
                  dq_data[b][c][k] * dq_map[dq_order[c]].elements[k]

-----------------------------------------------------------------------------
(* Properties of the inverse DCT                                           *)

\* C19: the inverse DCT of an all-zero coefficient block followed by the
\* +128 level shift yields 64 samples that all equal 128 (samples are in
\* sixteenths).
C19_ZeroBlockIsFlatGray ==
    (id_pc = "done" /\ id_mcu = Zeros(BLOCK_SIZE)) =>
        /\ Len(id_output) = BLOCK_SIZE
        /\ \A k \in 1..BLOCK_SIZE : id_output[k] = 16 * 128

\* An all-zero block has gone through perform_idct and the level shift, at
\* the precision whose sums are not empty.
C19_ZeroBlockDone ==
    /\ id_pc = "done"
    /\ id_mcu = Zeros(BLOCK_SIZE)
    /\ id_precision = SixteenBit

\* The block holds one coefficient that is not zero.
OneCoefficientSet(mcu) ==
    Cardinality({k \in 1..Len(mcu) : mcu[k] # 0}) = 1

\* C23: at 8-bit sample precision perform_idct sums, for each of the 64
\* output samples, over all 64 pairs (u, v), so every coefficient
\* contributes a term to every sample.  The term of a coefficient F(u, v)
\* that is not zero is not zero for any sample (no cosine of the table is
\* zero), so a block whose only non-zero coefficient is F(u, v) gives no
\* sample equal to the level shift 128 alone.
C23_EveryCoefficientContributes ==
    (id_pc = "done" /\ id_precision = EightBit /\ OneCoefficientSet(id_mcu)) =>
        \A k \in 1..BLOCK_SIZE : id_output[k] # 16 * 128

-----------------------------------------------------------------------------
(* Properties of the entropy decoder                                       *)

\* The decoding rule: each bit moves the current node to its left child on
\* 0 and its right child on 1; when the new node is a leaf its symbol is
\* emitted and the walk restarts at the root of the tree selected next.
\* The symbols the rule emits for the bits from position i (1-based) on,
\* the walk standing at node and n symbols emitted before.
RECURSIVE RuleSymbols(_, _, _, _, _, _)
RuleSymbols(bits, i, node, n, trees, selectors) ==
    IF i > Len(bits) THEN << >>
    ELSE LET child == IF bits[i] = 0 THEN node[3] ELSE node[4]
         IN  IF child[3] = NoNode /\ child[4] = NoNode
             THEN <<child[1]>> \o
                  RuleSymbols(bits, i + 1, SelectedRoot(trees, selectors, n + 1),
                              n + 1, trees, selectors)
             ELSE RuleSymbols(bits, i + 1, child, n, trees, selectors)

\* The symbols of a stream of complete code words.
CodedSymbols(bits, trees, selectors) ==
    RuleSymbols(bits, 1, SelectedRoot(trees, selectors, 0), 0, trees, selectors)

\* C20: decode_huffman uses every input bit for exactly one tree
\* transition and emits a symbol in the step whose bit reaches a leaf, so
\* a symbol at depth d costs d bits and a stream that is the concatenation
\* of k complete code words emits exactly the k symbols coded.
C20_OneBitPerTransition ==
    (eh_pc = "done" /\ eh_result = "ok") =>
        /\ eh_walked = Len(eh_data)
        /\ eh_emitted = CodedSymbols(eh_data, eh_trees, eh_selectors)

\* The nodes of the tree under a node, the node included.
RECURSIVE TreeNodes(_)
TreeNodes(node) ==
    IF node = NoNode THEN {}
    ELSE {node} \cup TreeNodes(node[3]) \cup TreeNodes(node[4])

\* decode_huffman is in its loop, or has returned Ok.
EntropyRunning == eh_pc = "loop" \/ (eh_pc = "done" /\ eh_result = "ok")

\* C22: at every step of decode_huffman with N scan components,
\* component_ptr is in 0..N-1 and is the number of symbols emitted modulo
\* N (it returns to 0 only when component N-1 has emitted), num_coeffs is
\* the number of completed triples, and the tree walked is the DC tree of
\* the current component's dc destination id when num_coeffs is a multiple
\* of 64 and the AC tree of its ac destination id otherwise.
C22_TreeSelection ==
    EntropyRunning =>
        LET N == Len(eh_selectors)
            current == eh_selectors[eh_component_ptr + 1]
        IN  /\ eh_component_ptr \in 0..(N - 1)
            /\ eh_component_ptr = Len(eh_emitted) % N
            /\ eh_num_coeffs = Len(eh_emitted) \div N
            /\ eh_num_coeffs % 64 = 0 =>
                   eh_key = <<DC, current.dc_destination_id>>
            /\ eh_num_coeffs % 64 # 0 =>
                   eh_key = <<AC, current.ac_destination_id>>
            /\ eh_node # NoNode =>
                   eh_node \in TreeNodes(HuffmanMap(eh_trees)[eh_key])

\* The selection has gone from the DC trees to the AC trees and, after 64
\* triples, back to the DC tree of the second component.
C22_SecondBlockStarted ==
    /\ eh_pc = "loop"
    /\ eh_num_coeffs = 64
    /\ eh_component_ptr = 1
    /\ eh_key = <<DC, 1>>
    /\ eh_node # NoNode

-----------------------------------------------------------------------------
(* Properties of the marker scanner                                        *)

\* scan_markers has returned its map (to setup / decoder, or beyond).
ScanReturned ==
    \/ scan_pc = "built"
    \/ scan_pc = "done" /\ scan_result = "parser"
    \/ scan_pc = "done" /\ scan_result = "err" /\ entry = "decoder"

\* A segment marker at p whose length bytes are missing, whose declared
\* length is below 2, or whose declared payload runs past the buffer.
BadSegmentAt(buf, p) ==
    /\ p + 1 < Len(buf)
    /\ At(buf, p) = GLOBAL
    /\ At(buf, p + 1) \in AllMarkers
    /\ IsSegment(At(buf, p + 1))
    /\ \/ ~LengthReadable(buf, p)
       \/ DeclaredLength(buf, p) < 2
       \/ p + MARKER_SIZE + DeclaredLength(buf, p) > Len(buf)

\* A buffer framed as a baseline JPEG: SOI first, EOI last, and every 0xFF
\* in between opens a well-formed segment that ends before the EOI.
ValidBaseline(buf) ==
    /\ Len(buf) >= 4
    /\ At(buf, 0) = GLOBAL /\ At(buf, 1) = SOI
    /\ At(buf, Len(buf) - 2) = GLOBAL /\ At(buf, Len(buf) - 1) = EOI
    /\ \A p \in 2..(Len(buf) - 3) :
          At(buf, p) = GLOBAL =>
             /\ At(buf, p + 1) \in AllMarkers \ {SOI, EOI}
             /\ IsSegment(At(buf, p + 1))
             /\ ~BadSegmentAt(buf, p)
             /\ p + MARKER_SIZE + DeclaredLength(buf, p) <= Len(buf) - 2

\* The buffer position of the k-th marlen recorded for marker m.
MarkerPosition(m, marlen) ==
    IF IsSegment(m) THEN marlen[1] - MARKER_SIZE - 2 ELSE marlen[1] - MARKER_SIZE

\* The markers the map records at buffer position p.
RecordedAt(map, p) ==
    {m \in DOMAIN map :
        \E k \in 1..Len(map[m]) : MarkerPosition(m, map[m][k]) = p}

\* The marker codes still unresolved when the window holding p was scanned.
UnresolvedAt(log, p) ==
    LET w == CHOOSE k \in 1..Len(log) :
                 log[k][1] <= p /\ p < log[k][1] + LANE_COUNT
    IN  log[w][2]

\* The marker the buffer holds at p, if it is still searched for.
ExpectedAt(buf, log, p) ==
    IF /\ At(buf, p) = GLOBAL
       /\ p + 1 < Len(buf)
       /\ At(buf, p + 1) \in UnresolvedAt(log, p)
    THEN {At(buf, p + 1)}
    ELSE {}

\* C16: every marlen the scanner records for a marker at position p (a
\* 0xFF byte, followed by the marker code unless p is the last lane of its
\* window) is (p + 4, L - 2) for a segment marker, L the big-endian 16-bit
\* value at p+2..p+3 and L - 2 a usize, and (p + 2, 0) for a standalone one.
C16_MarlenLayout ==
    \A m \in DOMAIN marker_marlen_map :
        \A k \in 1..Len(marker_marlen_map[m]) :
            LET marlen == marker_marlen_map[m][k]
                p == IF m \in {SOI, EOI, TEM} \cup (RST0..RST7)
                     THEN marlen[1] - 2 ELSE marlen[1] - 4
            IN  /\ p >= 0 /\ p < Len(mmap)
                /\ At(mmap, p) = GLOBAL
                /\ (p % LANE_COUNT # LANE_COUNT - 1 /\ p + 1 < Len(mmap))
                      => At(mmap, p + 1) = m
                /\ IF m \in {SOI, EOI, TEM} \cup (RST0..RST7)
                   THEN marlen = <<p + 2, 0>>
                   ELSE marlen = <<p + 4, (256 * At(mmap, p + 2) + At(mmap, p + 3)) - 2>>

\* The scanner has recorded a segment marker and a standalone marker.
C16_BothKindsRecorded ==
    /\ ScanReturned
    /\ DHT \in DOMAIN marker_marlen_map
    /\ SOI \in DOMAIN marker_marlen_map
    /\ EOI \in DOMAIN marker_marlen_map

\* C26: once a singleton marker has been found no further occurrence of it
\* is recorded: in every map scan_markers returns each singleton marker has
\* at most one Marlen, also when two occurrences lie in the same window.
C26_SingletonRecordedOnce ==
    ScanReturned =>
        \A m \in DOMAIN marker_marlen_map :
            Singleton(m) => Len(marker_marlen_map[m]) <= 1

\* C30: a second call of Decoder::setup on the same Decoder gives the
\* outcome of the first: the scan starts from buffer position 0 again, so
\* the second call returns what the first returned, with an equal marlen
\* map, and does not fail or read out of bounds because of the cursor the
\* first call left behind.
C30_SecondCallSameOutcome ==
    (sa_calls = 2 /\ scan_pc = "done") =>
        /\ scan_result = sa_first.result
        /\ scan_result = "parser" => marker_marlen_map = sa_first.map

\* all_markers and marker_marlen_map after the windows from cur up to
\* limit, each window merged as a whole in marker order.
RECURSIVE WindowsMerged(_, _, _, _, _)
WindowsMerged(buf, cur, limit, markers, map) ==
    IF cur >= limit \/ cur >= Len(buf) THEN <<markers, map>>
    ELSE IF HighLanes(Chunk(buf, cur)) = {}
    THEN WindowsMerged(buf, cur + LANE_COUNT, limit, markers, map)
    ELSE WindowsMerged(buf, cur + LANE_COUNT, limit,
                       RemoveVisited(markers, buf, cur),
                       MergeWindow(map, buf, cur, markers))

\* The workers of the current window are running, or none has started.
BetweenMerges ==
    \/ scan_pc \in {"scan", "built"}
    \/ scan_pc = "done" /\ scan_result = "parser"
    \/ scan_pc = "workers" /\ wk_pending # {}

\* C29: the marlen map scan_markers produces is the same under every
\* completion order of the workers of each window and every order of their
\* results: while workers run they change neither the map nor the marker
\* set, after every merge both are what the windows scanned so far give
\* when merged as a whole, and each marker's Marlen list is in ascending
\* offset order.
C29_SchedulingIndependent ==
    BetweenMerges =>
        /\ <<all_markers, marker_marlen_map>> =
               WindowsMerged(mmap, 0, cursor, AllMarkers, << >>)
        /\ \A m \in DOMAIN marker_marlen_map :
               \A i, j \in 1..Len(marker_marlen_map[m]) :
                   i < j => marker_marlen_map[m][i][1] < marker_marlen_map[m][j][1]

\* scan_markers has returned after a window in which three workers
\* finished in the reverse of the file order of their markers.
C29_WorkersOutOfOrder ==
    /\ scan_pc = "built"
    /\ wk_log = <<EOI, DQT, SOI>>
    /\ {SOI, DQT, EOI} \subseteq DOMAIN marker_marlen_map

\* C6: for every buffer framed as a baseline JPEG, of any length, the map
\* scan_markers returns holds exactly one SOI marlen, at offset 2, and
\* exactly one EOI marlen, at offset = buffer length.
C6_OneSoiOneEoi ==
    (ScanReturned /\ ValidBaseline(mmap)) =>
        DecoderAccepts(marker_marlen_map, mmap)

\* C7: scan_markers records a marlen for position p exactly when
\* buffer[p] = 0xFF and buffer[p+1] is a still-unresolved marker code,
\* wherever p falls relative to the 64-byte windows.
C7_RecordedIffMarker ==
    ScanReturned =>
        \A p \in 0..(Len(mmap) - 1) :
            RecordedAt(marker_marlen_map, p) = ExpectedAt(mmap, window_log, p)

\* C9: building the parser returns an error whenever SOI or EOI is absent
\* from the scan result, recorded more than once, or at the wrong offset,
\* and returns a parser only when none of these holds.
C9_ParserOnlyIfFramed ==
    (scan_pc = "done" /\ ScanReturned) =>
        /\ scan_result = "parser" => DecoderAccepts(marker_marlen_map, mmap)
        /\ ~DecoderAccepts(marker_marlen_map, mmap) => scan_result = "err"

\* C10: a segment whose length bytes are missing, whose declared length is
\* below 2 or whose payload runs past the buffer makes scanning return an
\* error; no out-of-bounds read (panic) and no underflowed length occurs.
C10_BadSegmentIsError ==
    (\E p \in 0..(Len(mmap) - 1) : BadSegmentAt(mmap, p)) =>
        /\ scan_result # "panic"
        /\ \A m \in DOMAIN marker_marlen_map :
              \A k \in 1..Len(marker_marlen_map[m]) :
                  marker_marlen_map[m][k][2] >= 0
        /\ scan_pc = "done" => scan_result = "err"

=============================================================================
